---------------------------- MODULE Spec2Model ----------------------------
(***************************************************************************)
(* A model of the subtitle track (subtitle.cpp / subtitle.h) and of the    *)
(* video player's decode thread and its consumer-side facade (media.cpp /  *)
(* media.h).                                                               *)
(*                                                                         *)
(* A std::string is a sequence of one-character strings.  Times are whole  *)
(* milliseconds (the code's doubles hold seconds).  Positions in a string  *)
(* are 1-based here and 0 stands for std::string::npos.                    *)
(***************************************************************************)
EXTENDS Integers, Sequences, FiniteSets, TLC

\* ------------------------------------------------------------------ bounds
\* the most entries add_ffmpeg_entry grows a track to
MaxEntries == 3
\* the most blocks of lines a subtitle file is built from
MaxBlocks == 2
\* the longest text handed to clean_text on its own
MaxTextLen == 4

\* ------------------------------------------------------- string primitives
Digits == {"0","1","2","3","4","5","6","7","8","9"}

DigitVal(c) ==
    CASE c = "0" -> 0 [] c = "1" -> 1 [] c = "2" -> 2 [] c = "3" -> 3
      [] c = "4" -> 4 [] c = "5" -> 5 [] c = "6" -> 6 [] c = "7" -> 7
      [] c = "8" -> 8 [] c = "9" -> 9

\* what isspace() accepts, which is what sscanf skips before a %d
IsSpaceChars == {" ", "\t", "\n", "\r", "\f"}

SetMin(S) == CHOOSE x \in S : \A y \in S : x <= y
SetMax(S) == CHOOSE x \in S : \A y \in S : y <= x

\* s.substr(pos - 1): the rest of s from position pos on
Tail_from(s, pos) == SubSeq(s, pos, Len(s))

\* s.find_first_not_of(set, from - 1)
find_first_not_of(s, set, from) ==
    LET I == {i \in from..Len(s) : s[i] \notin set}
    IN  IF I = {} THEN 0 ELSE SetMin(I)

\* s.find_last_not_of(set)
find_last_not_of(s, set) ==
    LET I == {i \in 1..Len(s) : s[i] \notin set}
    IN  IF I = {} THEN 0 ELSE SetMax(I)

\* s.find_first_of(set, from - 1); from = 0 is a search from npos, which finds nothing
find_first_of(s, set, from) ==
    LET I == {i \in from..Len(s) : s[i] \in set}
    IN  IF from = 0 \/ I = {} THEN 0 ELSE SetMin(I)

\* s.find(pat, from - 1)
find(s, pat, from) ==
    LET I == {i \in from..(Len(s) - Len(pat) + 1) : SubSeq(s, i, i + Len(pat) - 1) = pat}
    IN  IF I = {} THEN 0 ELSE SetMin(I)

\* the lambdas trim_str (load_srt) and trim_f (load_ass): strip spaces and tabs
trim_str(s) ==
    LET f == find_first_not_of(s, {" ", "\t"}, 1)
        l == find_last_not_of(s, {" ", "\t"})
    IN  IF f = 0 THEN <<>> ELSE SubSeq(s, f, l)

\* the lambda trim_cr: drop one trailing carriage return
trim_cr(line) ==
    IF line # <<>> /\ line[Len(line)] = "\r" THEN SubSeq(line, 1, Len(line) - 1) ELSE line

\* ---------------------------------------------------------------- sscanf
RECURSIVE skip_space(_, _)
skip_space(s, i) ==
    IF i <= Len(s) /\ s[i] \in IsSpaceChars THEN skip_space(s, i + 1) ELSE i

RECURSIVE scan_digits(_, _, _)
scan_digits(s, i, acc) ==
    IF i <= Len(s) /\ s[i] \in Digits
    THEN scan_digits(s, i + 1, acc * 10 + DigitVal(s[i]))
    ELSE <<acc, i>>

\* one %d conversion at position i: leading white space, an optional sign, digits.
\* ok is FALSE when no digit follows (the conversion fails and sscanf stops).
scan_int(s, i) ==
    LET j   == skip_space(s, i)
        sgn == j <= Len(s) /\ s[j] \in {"-", "+"}
        k   == IF sgn THEN j + 1 ELSE j
        r   == scan_digits(s, k, 0)
    IN  IF r[2] = k
        THEN [ok |-> FALSE, val |-> 0, next |-> i]
        ELSE [ok |-> TRUE, val |-> IF sgn /\ s[j] = "-" THEN 0 - r[1] ELSE r[1],
              next |-> r[2]]

\* a literal character of the format at position i
scan_lit(s, i, c) == i <= Len(s) /\ s[i] = c

\* sscanf(ts, "%d:%d:%d<sep>%d", &h, &m, &s, &f) on h = m = s = f = 0: the scan
\* stops at the first conversion or literal that does not match, and the fields
\* after it keep their zero
scan_time(ts, sep) ==
    LET zero == [h |-> 0, m |-> 0, s |-> 0, f |-> 0]
        h == scan_int(ts, 1)
    IN  IF ~h.ok THEN zero ELSE
        LET r1 == [zero EXCEPT !.h = h.val] IN
        IF ~scan_lit(ts, h.next, ":") THEN r1 ELSE
        LET m == scan_int(ts, h.next + 1) IN
        IF ~m.ok THEN r1 ELSE
        LET r2 == [r1 EXCEPT !.m = m.val] IN
        IF ~scan_lit(ts, m.next, ":") THEN r2 ELSE
        LET s == scan_int(ts, m.next + 1) IN
        IF ~s.ok THEN r2 ELSE
        LET r3 == [r2 EXCEPT !.s = s.val] IN
        IF ~scan_lit(ts, s.next, sep) THEN r3 ELSE
        LET f == scan_int(ts, s.next + 1) IN
        IF ~f.ok THEN r3 ELSE [r3 EXCEPT !.f = f.val]

\* a parser that gives zero unless all four fields were converted
parse_srt_time_all_or_zero(ts) ==
    LET h == scan_int(ts, 1)
        m == scan_int(ts, h.next + 1)
        s == scan_int(ts, m.next + 1)
        f == scan_int(ts, s.next + 1)
    IN  IF h.ok /\ scan_lit(ts, h.next, ":") /\ m.ok /\ scan_lit(ts, m.next, ":")
           /\ s.ok /\ scan_lit(ts, s.next, ",") /\ f.ok
        THEN (h.val * 3600 + m.val * 60 + s.val) * 1000 + f.val
        ELSE 0

\* "01:23:45,678" -> milliseconds (h*3600.0 + m*60.0 + s + ms/1000.0 seconds)
parse_srt_time(ts) ==
    LET t == scan_time(ts, ",")
    IN  (t.h * 3600 + t.m * 60 + t.s) * 1000 + t.f

\* a parser that takes the last field for milliseconds
parse_ass_time_ms(ts) ==
    LET t == scan_time(ts, ".")
    IN  (t.h * 3600 + t.m * 60 + t.s) * 1000 + t.f

\* "1:23:45.67" -> milliseconds (h*3600.0 + m*60.0 + s + cs/100.0 seconds)
parse_ass_time(ts) ==
    LET t == scan_time(ts, ".")
    IN  (t.h * 3600 + t.m * 60 + t.s) * 1000 + t.f * 10

\* ------------------------------------------------------------ text cleaner
\* a scan whose depth follows every closing brace, below zero too
RECURSIVE strip_ass_from_unclamped(_, _, _)
strip_ass_from_unclamped(s, i, depth) ==
    IF i > Len(s) THEN <<>>
    ELSE IF s[i] = "{" THEN strip_ass_from_unclamped(s, i + 1, depth + 1)
    ELSE IF s[i] = "}" THEN strip_ass_from_unclamped(s, i + 1, depth - 1)
    ELSE IF depth = 0 THEN <<s[i]>> \o strip_ass_from_unclamped(s, i + 1, depth)
    ELSE strip_ass_from_unclamped(s, i + 1, depth)

RECURSIVE strip_ass_from(_, _, _)
strip_ass_from(s, i, depth) ==
    IF i > Len(s) THEN <<>>
    ELSE IF s[i] = "{" THEN strip_ass_from(s, i + 1, depth + 1)
    ELSE IF s[i] = "}" THEN strip_ass_from(s, i + 1, IF depth > 0 THEN depth - 1 ELSE depth)
    ELSE IF depth = 0 THEN <<s[i]>> \o strip_ass_from(s, i + 1, depth)
    ELSE strip_ass_from(s, i + 1, depth)

strip_ass_tags(s) == strip_ass_from(s, 1, 0)

RECURSIVE strip_html_from(_, _, _)
strip_html_from(s, i, depth) ==
    IF i > Len(s) THEN <<>>
    ELSE IF s[i] = "<" THEN strip_html_from(s, i + 1, depth + 1)
    ELSE IF s[i] = ">" THEN strip_html_from(s, i + 1, IF depth > 0 THEN depth - 1 ELSE depth)
    ELSE IF depth = 0 THEN <<s[i]>> \o strip_html_from(s, i + 1, depth)
    ELSE strip_html_from(s, i + 1, depth)

strip_html_tags(s) == strip_html_from(s, 1, 0)

\* an escape loop that also takes two backslashes for one
RECURSIVE unescape_from_double(_, _)
unescape_from_double(r, i) ==
    IF i > Len(r) THEN <<>>
    ELSE IF r[i] = "\\" /\ i + 1 <= Len(r) /\ r[i + 1] \in {"N", "n"}
    THEN <<"\n">> \o unescape_from_double(r, i + 2)
    ELSE IF r[i] = "\\" /\ i + 1 <= Len(r) /\ r[i + 1] = "\\"
    THEN <<"\\">> \o unescape_from_double(r, i + 2)
    ELSE <<r[i]>> \o unescape_from_double(r, i + 1)

\* the escape loop of clean_text: backslash-N and backslash-n become a line break
RECURSIVE unescape_from(_, _)
unescape_from(r, i) ==
    IF i > Len(r) THEN <<>>
    ELSE IF r[i] = "\\" /\ i + 1 <= Len(r) /\ r[i + 1] \in {"N", "n"}
    THEN <<"\n">> \o unescape_from(r, i + 2)
    ELSE <<r[i]>> \o unescape_from(r, i + 1)

\* a cleaner that strips tags and converts escapes but does not trim
clean_text_untrimmed(s) == unescape_from(strip_ass_tags(strip_html_tags(s)), 1)

clean_text(s) ==
    LET r     == strip_ass_tags(strip_html_tags(s))
        out   == unescape_from(r, 1)
        first == find_first_not_of(out, {" ", "\t", "\r", "\n"}, 1)
        last  == find_last_not_of(out, {" ", "\t", "\r", "\n"})
    IN  IF first = 0 THEN <<>> ELSE SubSeq(out, first, last)

\* ------------------------------------------------------------------ entries
\* an entry built with its two times exchanged
SubtitleEntry_swapped(start, end, text) == [start |-> end, end |-> start, text |-> text]

\* SubtitleEntry{start, end, text}
SubtitleEntry(start, end, text) == [start |-> start, end |-> end, text |-> text]

\* SubtitleTrack::empty_str_
empty_str_ == <<>>

\* the comparator of add_ffmpeg_entry and sort_entries
start_less(a, b) == a.start < b.start

\* std::lower_bound(first, last, value, comp) over positions first..last-1 of v:
\* the halving search of the standard algorithm, comp(element, value)
\* a search that always answers the first position
lower_bound_first(v, first, len, value) == first

RECURSIVE lower_bound(_, _, _, _)
lower_bound(v, first, len, value) ==
    IF len <= 0 THEN first
    ELSE LET half == len \div 2
             mid  == first + half
         IN  IF start_less(v[mid], value)
             THEN lower_bound(v, mid + 1, len - half - 1, value)
             ELSE lower_bound(v, first, half, value)

\* a search that stops at the first entry starting at or after t
RECURSIVE upper_bound_at_or_after(_, _, _, _)
upper_bound_at_or_after(v, first, len, t) ==
    IF len <= 0 THEN first
    ELSE LET half == len \div 2
             mid  == first + half
         IN  IF t <= v[mid].start
             THEN upper_bound_at_or_after(v, first, half, t)
             ELSE upper_bound_at_or_after(v, mid + 1, len - half - 1, t)

\* std::upper_bound(first, last, t, comp) with comp(t, e) = t < e.start
RECURSIVE upper_bound(_, _, _, _)
upper_bound(v, first, len, t) ==
    IF len <= 0 THEN first
    ELSE LET half == len \div 2
             mid  == first + half
         IN  IF t < v[mid].start
             THEN upper_bound(v, first, half, t)
             ELSE upper_bound(v, mid + 1, len - half - 1, t)

\* entries_.insert(it, entry) with it at position pos
insert_at(v, pos, e) == SubSeq(v, 1, pos - 1) \o <<e>> \o SubSeq(v, pos, Len(v))

\* an insert that appends instead of searching for the sorted position
add_ffmpeg_entry_push_back(v, start, end, raw_text) ==
    LET text == clean_text(raw_text)
    IN  IF text = <<>> THEN v ELSE Append(v, SubtitleEntry(start, end, text))

add_ffmpeg_entry(v, start, end, raw_text) ==
    LET text == clean_text(raw_text)
    IN  IF text = <<>> THEN v
        ELSE LET entry == SubtitleEntry(start, end, text)
             IN  insert_at(v, lower_bound(v, 1, Len(v), entry), entry)

\* whether a sequence of entries is in non-decreasing order of start
IsSortedByStart(v) == \A i \in 1..(Len(v) - 1) : v[i].start <= v[i + 1].start

\* whether every entry of a sequence has 0 <= start < end
HasValidRanges(v) == \A i \in 1..Len(v) : 0 <= v[i].start /\ v[i].start < v[i].end

\* a sort that leaves the entries in the order they were read
sort_entries_file_order(v) == {v}

\* std::sort by start: the order of entries with equal starts is unspecified, so
\* this is the set of the orders std::sort may leave
sort_entries(v) ==
    {w \in {[i \in 1..Len(v) |-> v[p[i]]] : p \in Permutations(1..Len(v))} :
        IsSortedByStart(w)}

\* a lookup that still shows an entry at its end time
get_active_end_inclusive(v, time_sec) ==
    IF v = <<>> THEN empty_str_
    ELSE LET it == upper_bound(v, 1, Len(v), time_sec)
         IN  IF it # 1 /\ v[it - 1].start <= time_sec /\ time_sec <= v[it - 1].end
             THEN v[it - 1].text
             ELSE empty_str_

get_active(v, time_sec) ==
    IF v = <<>> THEN empty_str_
    ELSE LET it == upper_bound(v, 1, Len(v), time_sec)
         IN  IF it # 1 /\ v[it - 1].start <= time_sec /\ time_sec < v[it - 1].end
             THEN v[it - 1].text
             ELSE empty_str_


\* ------------------------------------------------------------- SRT loader
\* the three bytes EF BB BF of a UTF-8 byte-order mark, one element each
Bom == <<"EF", "BB", "BF">>

\* the local state of load_srt: entries_, cur, text_buf, in_entry
srt_start == [entries |-> <<>>, cur |-> [start |-> 0, end |-> 0],
              text_buf |-> <<>>, in_entry |-> FALSE]

\* a flush that leaves the text buffer as it is
srt_flush_keeping_text(st) ==
    LET text == clean_text(st.text_buf)
    IN  [st EXCEPT
           !.entries  = IF st.in_entry /\ st.text_buf # <<>> /\ text # <<>>
                        THEN Append(@, SubtitleEntry(st.cur.start, st.cur.end, text))
                        ELSE @,
           !.in_entry = FALSE]

\* the lambda flush
srt_flush(st) ==
    LET text == clean_text(st.text_buf)
    IN  [st EXCEPT
           !.entries  = IF st.in_entry /\ st.text_buf # <<>> /\ text # <<>>
                        THEN Append(@, SubtitleEntry(st.cur.start, st.cur.end, text))
                        ELSE @,
           !.text_buf = <<>>,
           !.in_entry = FALSE]

\* the time-range line: the text before the arrow, and the first token after it
srt_time_line(st, line, arrow) ==
    LET s_str == SubSeq(line, 1, arrow - 1)
        e_all == Tail_from(line, arrow + 3)
        eol   == find_first_of(e_all, {" ", "\t", "\r", "\n"},
                               find_first_not_of(e_all, {" ", "\t"}, 1))
        e_str == IF eol # 0 THEN SubSeq(e_all, 1, eol - 1) ELSE e_all
    IN  [st EXCEPT !.cur = [start |-> parse_srt_time(trim_str(s_str)),
                            end   |-> parse_srt_time(trim_str(e_str))]]

\* one iteration of the getline loop in which a line made only of digits
\* starts an entry only when no entry is in progress
srt_line_digits_between_entries(st, raw) ==
    LET unmarked == IF Len(raw) >= 3 /\ SubSeq(raw, 1, 3) = Bom THEN Tail_from(raw, 4) ELSE raw
        line     == trim_cr(unmarked)
        arrow    == find(line, <<"-", "-", ">">>, 1)
    IN  IF line = <<>> THEN srt_flush(st)
        ELSE IF ~st.in_entry /\ \A i \in 1..Len(line) : line[i] \in Digits
        THEN [srt_flush(st) EXCEPT !.in_entry = TRUE, !.cur = [start |-> 0, end |-> 0]]
        ELSE IF arrow # 0 THEN srt_time_line(st, line, arrow)
        ELSE IF st.in_entry
        THEN [st EXCEPT !.text_buf = IF @ # <<>> THEN @ \o <<"\n">> \o line ELSE line]
        ELSE st

\* one iteration of the getline loop of load_srt
srt_line(st, raw) ==
    LET unmarked == IF Len(raw) >= 3 /\ SubSeq(raw, 1, 3) = Bom THEN Tail_from(raw, 4) ELSE raw
        line     == trim_cr(unmarked)
        arrow    == find(line, <<"-", "-", ">">>, 1)
    IN  IF line = <<>> THEN srt_flush(st)
        ELSE IF \A i \in 1..Len(line) : line[i] \in Digits
        THEN [srt_flush(st) EXCEPT !.in_entry = TRUE, !.cur = [start |-> 0, end |-> 0]]
        ELSE IF arrow # 0 THEN srt_time_line(st, line, arrow)
        ELSE IF st.in_entry
        THEN [st EXCEPT !.text_buf = IF @ # <<>> THEN @ \o <<"\n">> \o line ELSE line]
        ELSE st

RECURSIVE srt_lines(_, _, _)
srt_lines(st, lines, i) ==
    IF i > Len(lines) THEN st ELSE srt_lines(srt_line(st, lines[i]), lines, i + 1)

\* the entries load_srt leaves in the track for a file that opens, given its lines
load_srt(lines) == srt_flush(srt_lines(srt_start, lines, 1)).entries

\* ------------------------------------------------------- ASS / SSA loader
\* the fields std::getline(ss, field, ',') yields: the text between commas, and
\* nothing for an empty rest of the stream
RECURSIVE getline_fields(_, _)
getline_fields(s, pos) ==
    IF pos > Len(s) THEN <<>>
    ELSE LET comma == find(s, <<",">>, pos)
         IN  IF comma = 0 THEN <<Tail_from(s, pos)>>
             ELSE <<SubSeq(s, pos, comma - 1)>> \o getline_fields(s, comma + 1)

\* the field trim of the Format loop: a field of blanks only is left as it is
format_field(field) ==
    LET f == find_first_not_of(field, {" ", "\t"}, 1)
        l == find_last_not_of(field, {" ", "\t"})
    IN  IF f # 0 THEN SubSeq(field, f, l) ELSE field

\* the Format line: the index of the first field named Text, 9 when there is none
ass_format(line) ==
    LET fields == getline_fields(Tail_from(line, 8), 1)
        hits   == {i \in 1..Len(fields) : format_field(fields[i]) = <<"T", "e", "x", "t">>}
    IN  IF hits = {} THEN 9 ELSE SetMin(hits) - 1

\* a split at every comma of the line, the commas of the text too
ass_split_every_comma(data, pos, i, text_col_idx) == getline_fields(data, pos)

\* the split loop of a Dialogue line, from column i at position pos of data
RECURSIVE ass_split(_, _, _, _)
ass_split(data, pos, i, text_col_idx) ==
    IF i > text_col_idx THEN <<>>
    ELSE IF i = text_col_idx THEN <<Tail_from(data, pos)>>
    ELSE LET comma == find(data, <<",">>, pos)
         IN  IF comma = 0 THEN <<Tail_from(data, pos)>>
             ELSE <<SubSeq(data, pos, comma - 1)>>
                      \o ass_split(data, comma + 1, i + 1, text_col_idx)

\* the Dialogue line: the entry it adds, if any
ass_dialogue(st, line) ==
    LET fields == ass_split(Tail_from(line, 10), 1, 0, st.text_col_idx)
    IN  IF Len(fields) < st.text_col_idx + 1 \/ Len(fields) < 3 THEN st
        ELSE LET start == parse_ass_time(trim_str(fields[2]))
                 end   == parse_ass_time(trim_str(fields[3]))
                 text  == clean_text(fields[st.text_col_idx + 1])
             IN  IF text # <<>>
                 THEN [st EXCEPT !.entries = Append(@, SubtitleEntry(start, end, text))]
                 ELSE st

starts_with(line, prefix) ==
    Len(line) >= Len(prefix) /\ SubSeq(line, 1, Len(prefix)) = prefix

\* the local state of load_ass: entries_, in_events, text_col_idx
ass_start == [entries |-> <<>>, in_events |-> FALSE, text_col_idx |-> 9]

\* an iteration that reads Format and Dialogue lines in every section
ass_line_any_section(st, raw) ==
    LET line == trim_cr(raw)
    IN  IF line = <<>> \/ line[1] = ";" \/ line[1] = "!" THEN st
        ELSE IF line[1] = "["
        THEN [st EXCEPT !.in_events = (find(line, <<"[", "E", "v", "e", "n", "t", "s", "]">>, 1) # 0)]
        ELSE IF starts_with(line, <<"F", "o", "r", "m", "a", "t", ":">>)
        THEN [st EXCEPT !.text_col_idx = ass_format(line)]
        ELSE IF ~starts_with(line, <<"D", "i", "a", "l", "o", "g", "u", "e", ":">>) THEN st
        ELSE ass_dialogue(st, line)

\* one iteration of the getline loop of load_ass
ass_line(st, raw) ==
    LET line == trim_cr(raw)
    IN  IF line = <<>> \/ line[1] = ";" \/ line[1] = "!" THEN st
        ELSE IF line[1] = "["
        THEN [st EXCEPT !.in_events = (find(line, <<"[", "E", "v", "e", "n", "t", "s", "]">>, 1) # 0)]
        ELSE IF ~st.in_events THEN st
        ELSE IF starts_with(line, <<"F", "o", "r", "m", "a", "t", ":">>)
        THEN [st EXCEPT !.text_col_idx = ass_format(line)]
        ELSE IF ~starts_with(line, <<"D", "i", "a", "l", "o", "g", "u", "e", ":">>) THEN st
        ELSE ass_dialogue(st, line)

RECURSIVE ass_lines(_, _, _)
ass_lines(st, lines, i) ==
    IF i > Len(lines) THEN st ELSE ass_lines(ass_line(st, lines[i]), lines, i + 1)

\* the tracks load_ass may leave for a file that opens, given its lines: the
\* entries read, in one of the orders sort_entries may give them
load_ass(lines) == sort_entries(ass_lines(ass_start, lines, 1).entries)

\* ------------------------------------------------- the files of the model
\* the lines subtitle files are built from, as std::getline yields them
\* 1
SrtLineSeq1 ==
    <<"1">>
\* 2\r
SrtLineSeq2Cr ==
    <<"2","\r">>
\* 3
SrtLineSeq3 ==
    <<"3">>
\* 4
SrtLineSeq4 ==
    <<"4">>
\* 00:00:01,000 --> 00:00:04,000
SrtLineTime1to4 ==
    <<"0","0",":","0","0",":","0","1",",","0","0","0"," ","-","-",">"," ","0","0",":","0","0",":","0","4",",","0","0","0">>
\* 00:00:00,500 --> 00:00:02,000 X1:0\r
SrtLineTimeHalfTo2 ==
    <<"0","0",":","0","0",":","0","0",",","5","0","0"," ","-","-",">"," ","0","0",":","0","0",":","0","2",",","0","0","0"," ","X","1",":","0","\r">>
\* 00:00:02,000 --> 00:00:03,000
SrtLineTime2to3 ==
    <<"0","0",":","0","0",":","0","2",",","0","0","0"," ","-","-",">"," ","0","0",":","0","0",":","0","3",",","0","0","0">>
\* Hello
SrtLineHello ==
    <<"H","e","l","l","o">>
\* <i>Hi</i>\r
SrtLineHiCr ==
    <<"<","i",">","H","i","<","/","i",">","\r">>
\* {\an8}
SrtLineTagOnly ==
    <<"{","\\","a","n","8","}">>
\* Yo
SrtLineYo ==
    <<"Y","o">>
\* [Events]
AssLineEvents ==
    <<"[","E","v","e","n","t","s","]">>
\* [V4+ Styles]
AssLineStyles ==
    <<"[","V","4","+"," ","S","t","y","l","e","s","]">>
\* ; a comment
AssLineComment ==
    <<";"," ","a"," ","c","o","m","m","e","n","t">>
\* Format: Layer,Start,End,Style,Name,MarginL,MarginR,MarginV,Effect,Text
AssLineFormat ==
    <<"F","o","r","m","a","t",":"," ","L","a","y","e","r",",","S","t","a","r","t",",","E","n","d",",","S","t","y","l","e",",","N","a","m","e",",","M","a","r","g","i","n","L",",","M","a","r","g","i","n","R",",","M","a","r","g","i","n","V",",","E","f","f","e","c","t",",","T","e","x","t">>
\* Dialogue: 0,0:00:01.00,0:00:03.50,Default,,0,0,0,,Hi, there
AssLineHiThere ==
    <<"D","i","a","l","o","g","u","e",":"," ","0",",","0",":","0","0",":","0","1",".","0","0",",","0",":","0","0",":","0","3",".","5","0",",","D","e","f","a","u","l","t",",",",","0",",","0",",","0",",",",","H","i",","," ","t","h","e","r","e">>
\* Dialogue: 0,0:00:05.00,0:00:06.00,Default,,0,0,0,,{\i1}Later\r
AssLineLater ==
    <<"D","i","a","l","o","g","u","e",":"," ","0",",","0",":","0","0",":","0","5",".","0","0",",","0",":","0","0",":","0","6",".","0","0",",","D","e","f","a","u","l","t",",",",","0",",","0",",","0",",",",","{","\\","i","1","}","L","a","t","e","r","\r">>
\* Dialogue: 0,0:00:02.00,0:00:03.00,Default,,0,0,0,,{\an8}
AssLineTagOnly ==
    <<"D","i","a","l","o","g","u","e",":"," ","0",",","0",":","0","0",":","0","2",".","0","0",",","0",":","0","0",":","0","3",".","0","0",",","D","e","f","a","u","l","t",",",",","0",",","0",",","0",",",",","{","\\","a","n","8","}">>
\* Dialogue: 0,0:00:00.50,0:00:09.00,Default,,0,0,0,,Outside
AssLineOutside ==
    <<"D","i","a","l","o","g","u","e",":"," ","0",",","0",":","0","0",":","0","0",".","5","0",",","0",":","0","0",":","0","9",".","0","0",",","D","e","f","a","u","l","t",",",",","0",",","0",",","0",",",",","O","u","t","s","i","d","e">>
\* Format: Marked, Start, End, Text
AssLineFormatShort ==
    <<"F","o","r","m","a","t",":"," ","M","a","r","k","e","d",","," ","S","t","a","r","t",","," ","E","n","d",","," ","T","e","x","t">>
\* Dialogue: Marked=0,0:00:07.00,0:00:08.00,a,b
AssLineShort ==
    <<"D","i","a","l","o","g","u","e",":"," ","M","a","r","k","e","d","=","0",",","0",":","0","0",":","0","7",".","0","0",",","0",":","0","0",":","0","8",".","0","0",",","a",",","b">>

\* blocks of lines of an SRT file, by name: a cue behind a byte-order mark; a
\* later, shorter cue; a cue that starts earlier, with CR-LF line ends, position
\* data after its end time and no blank line after it; a cue whose text is markup
\* only; a cue with no time-range line; a text line on its own
SrtBlocks == {"Hello", "Yo", "Early", "TagOnly", "NoTime", "Stray"}
SrtBlockLines(b) ==
    CASE b = "Hello"   -> <<Bom \o SrtLineSeq1, SrtLineTime1to4, SrtLineHello, <<>>>>
      [] b = "Yo"      -> <<SrtLineSeq3, SrtLineTime2to3, SrtLineYo, <<>>>>
      [] b = "Early"   -> <<SrtLineSeq2Cr, SrtLineTimeHalfTo2, SrtLineHiCr>>
      [] b = "TagOnly" -> <<SrtLineSeq3, SrtLineTime2to3, SrtLineTagOnly, <<>>>>
      [] b = "NoTime"  -> <<SrtLineSeq4, SrtLineYo, <<>>>>
      [] b = "Stray"   -> <<SrtLineYo>>

\* blocks of lines of an ASS file, by name: the events section with its Format line
\* and a late cue; an events header and an early cue with commas in its text; a
\* cue of markup only behind a comment; a section that is not the events section,
\* with a Format line of its own; an events section whose Format line names four
\* columns, and a cue with a comma in its text
AssBlocks == {"Later", "HiThere", "TagOnly", "Outside", "Short"}
AssBlockLines(b) ==
    CASE b = "Later"   -> <<AssLineEvents, AssLineFormat, AssLineLater>>
      [] b = "HiThere" -> <<AssLineEvents, AssLineHiThere>>
      [] b = "TagOnly" -> <<AssLineComment, AssLineTagOnly>>
      [] b = "Outside" -> <<AssLineStyles, AssLineFormatShort, AssLineOutside>>
      [] b = "Short"   -> <<AssLineEvents, AssLineFormatShort, AssLineShort>>

\* a file is the sequence of the names of its blocks, at most MaxBlocks of them
FilesOf(blocks) == UNION {[1..n -> blocks] : n \in 0..MaxBlocks}
SrtFiles == FilesOf(SrtBlocks)
AssFiles == FilesOf(AssBlocks)

\* the lines of a file
RECURSIVE SrtFileLines(_)
SrtFileLines(file) ==
    IF file = <<>> THEN <<>> ELSE SrtBlockLines(Head(file)) \o SrtFileLines(Tail(file))

RECURSIVE AssFileLines(_)
AssFileLines(file) ==
    IF file = <<>> THEN <<>> ELSE AssBlockLines(Head(file)) \o AssFileLines(Tail(file))

\* what add_ffmpeg_entry is called with
AddStarts == {1000, 2000}
AddDurations == {1000, 3000}
AddTexts == {<<"a">>, <<" ", "b", "\\", "N">>, <<"{", "x", "}">>}

\* ------------------------------------------------------------------- state
VARIABLES
    entries_,           \* SubtitleTrack::entries_ (VideoPlayer::subtitle_track_)
    op,                 \* the last operation on the track: its name, whether the file
                        \* opened, its return value, the file it read, and whether
                        \* the track was in start order when it was called
    running_,           \* VideoPlayer's atomics
    paused_,
    ended_,
    seek_target_,
    cur_pts_,
    frame_ready_,
    use_embedded_sub_,
    frame_mutex_,       \* the holder of each mutex: "free", "decode" or "consumer"
    subtitle_mutex_,
    rgb_frame_,         \* the timestamp of the frame in the shared buffer, -1 for none
    texture_,           \* the timestamp of the frame update() copied, -1 for none
    sub_text,           \* what get_subtitle_text() is returning
    threads,            \* decode threads started and not yet returned
    dpc,                \* where the decode thread is; "none": no joinable thread
    seek_val,           \* decode_loop's locals: seek_val,
    elapsed,            \*   SDL_GetTicksNS() - start_ns, in milliseconds,
    rect,               \*   and r of the loop over the rectangles of a subtitle
    dpos,               \* the demuxer: packets of the stream read so far
    cpc,                \* where the consumer thread is; "idle": between calls
    carg,               \* the argument of the call the consumer is in
    hist,               \* history of the run, read by the properties only
    format_ctx_,        \* the container the player has open, "none" for nullptr
    video_ctx_,         \* the video decoder: "none" for nullptr, "unopened" when
                        \* avcodec_open2 failed on it, "open"
    fn,                 \* a function of the text cleaner or the timecode parsers
                        \* on its own: which one, "none" when none is applied,
    arg,                \*   its argument,
    res                 \*   and the results of applying it once and twice

track == <<entries_, op>>

player == <<running_, paused_, ended_, seek_target_, cur_pts_, frame_ready_,
            use_embedded_sub_, frame_mutex_, subtitle_mutex_, rgb_frame_, texture_,
            sub_text, threads, dpc, seek_val, elapsed, rect, dpos, cpc, carg, hist,
            format_ctx_, video_ctx_>>

pure == <<fn, arg, res>>

vars == <<entries_, op, player, pure>>

Op(name, opened, ret, file) ==
    [name |-> name, opened |-> opened, ret |-> ret, file |-> file,
     sorted_before |-> IsSortedByStart(entries_),
     valid_before |-> HasValidRanges(entries_)]

NoOp == [name |-> "init", opened |-> TRUE, ret |-> TRUE, file |-> <<>>,
         sorted_before |-> TRUE, valid_before |-> TRUE]

\* what load_srt and load_ass leave for every file of the model: the file with the
\* track that results
SrtLoads == {<<file, load_srt(SrtFileLines(file))>> : file \in SrtFiles}
AssLoads == UNION {{<<file, v>> : v \in load_ass(AssFileLines(file))} : file \in AssFiles}

\* ------------------------------------------------------ track operations
\* a loader that empties the track before it finds the file unopened
load_not_opened_cleared(v) == <<>>

\* if (!ifs.is_open()) return false; comes before entries_.clear(): the track
\* stays as it is
load_not_opened(v) == v

\* a loader that reports success whatever it read
load_returns_true(v) == TRUE

\* return !entries_.empty();
load_returns(v) == v # <<>>

\* load_srt(path)
LoadSrt ==
    \/ /\ entries_' = load_not_opened(entries_)
       /\ op' = Op("load_srt", FALSE, FALSE, <<>>)
       /\ UNCHANGED <<player, pure>>
    \/ \E l \in SrtLoads :
          /\ entries_' = l[2]
          /\ op' = Op("load_srt", TRUE, load_returns(l[2]), l[1])
          /\ UNCHANGED <<player, pure>>

\* load_ass(path)
LoadAss ==
    \/ /\ entries_' = load_not_opened(entries_)
       /\ op' = Op("load_ass", FALSE, FALSE, <<>>)
       /\ UNCHANGED <<player, pure>>
    \/ \E l \in AssLoads :
          /\ entries_' = l[2]
          /\ op' = Op("load_ass", TRUE, load_returns(l[2]), l[1])
          /\ UNCHANGED <<player, pure>>

\* the extensions load_file probes, in its order
Exts == <<".srt", ".ass", ".ssa">>

\* what load_file may find under one extension: nothing, a path that exists and
\* does not open as a file, or a file, given by its blocks and by the track its
\* loader leaves for it
NoFile == [state |-> "absent", blocks |-> <<>>, entries |-> <<>>]
Unopenable == [state |-> "unopenable", blocks |-> <<>>, entries |-> <<>>]
ProbedSrtFiles == {<<>>, <<"Hello">>, <<"TagOnly">>, <<"Yo", "Hello">>}
ProbedAssFiles == {<<>>, <<"HiThere">>, <<"TagOnly">>, <<"Later", "HiThere">>}
Candidates(ext) ==
    {NoFile, Unopenable} \cup
    {[state |-> "file", blocks |-> l[1], entries |-> l[2]] :
        l \in IF ext = ".srt" THEN {m \in SrtLoads : m[1] \in ProbedSrtFiles}
                              ELSE {m \in AssLoads : m[1] \in ProbedAssFiles}}

\* load_srt(p) or load_ass(p) on a path that exists: the result and the track
load_one(v, c) ==
    IF c.state = "unopenable"
    THEN [ok |-> FALSE, entries |-> load_not_opened(v)]
    ELSE [ok |-> load_returns(c.entries), entries |-> c.entries]

\* a probe that goes on to the later extensions after a file has loaded
RECURSIVE load_file_through(_, _, _)
load_file_through(v, cands, i) ==
    IF i > Len(Exts) THEN [ok |-> FALSE, entries |-> v]
    ELSE IF cands[i].state = "absent" THEN load_file_through(v, cands, i + 1)
    ELSE LET r == load_one(v, cands[i])
             q == load_file_through(r.entries, cands, i + 1)
         IN  [ok |-> r.ok \/ q.ok, entries |-> q.entries]

\* the loop of load_file from extension i on: the result and the track
RECURSIVE load_file_from(_, _, _)
load_file_from(v, cands, i) ==
    IF i > Len(Exts) THEN [ok |-> FALSE, entries |-> v]
    ELSE IF cands[i].state = "absent" THEN load_file_from(v, cands, i + 1)
    ELSE LET r == load_one(v, cands[i])
         IN  IF r.ok THEN r ELSE load_file_from(r.entries, cands, i + 1)

load_file(v, cands) == load_file_from(v, cands, 1)

\* load_file(media_path)
LoadFile ==
    \E srt \in Candidates(".srt"), ass \in Candidates(".ass"), ssa \in Candidates(".ssa") :
        LET cands == <<srt, ass, ssa>>
            r     == load_file(entries_, cands)
        IN  /\ entries_' = r.entries
            /\ op' = Op("load_file", \E i \in 1..Len(Exts) : cands[i].state = "file",
                        r.ok, cands)
            /\ UNCHANGED <<player, pure>>

\* add_ffmpeg_entry(start, end, raw_text)
AddFfmpegEntry ==
    \E start \in AddStarts, d \in AddDurations, raw_text \in AddTexts :
        /\ Len(entries_) < MaxEntries
        /\ entries_' = add_ffmpeg_entry(entries_, start, start + d, raw_text)
        /\ op' = Op("add_ffmpeg_entry", TRUE, TRUE, <<>>)
        /\ UNCHANGED <<player, pure>>

\* clear()
clear_nothing(v) == v
clear(v) == <<>>

Clear ==
    /\ entries_' = clear(entries_)
    /\ op' = Op("clear", TRUE, TRUE, <<>>)
    /\ UNCHANGED <<player, pure>>

\* nothing has happened yet
NoHist ==
    [on |-> TRUE,               \* the history is kept
     late_write |-> FALSE,      \* the decode thread wrote shared state while stopped
     request |-> -1,            \* the target of the latest seek() made while running
                                \* that the loop has not yet set the position to
     risen |-> "no",            \* a seek() on an ended, running player: "pending"
                                \* from its call, "serviced" once the loop has read
                                \* its target, "no" once the loop reads end-of-stream
     sought |-> FALSE,          \* seek() was called with the embedded source active
     since_seek |-> {},         \* the entries inserted since the latest such call
     cleared |-> FALSE,         \* the loop cleared the track while servicing a seek
     since_clear |-> {},        \* the entries inserted since the latest such clear
     stop |-> "no",             \* "stopped" from a stop() of a running player,
                                \* "poked" once toggle_pause() or seek() was called
                                \* after it, "replayed" from the next play()
     traced |-> FALSE,          \* the iterations of the decode loop are traced
     did |-> {},                \* what the loop has done in its current iteration:
                                \* "seek" a target observed, "moved" the position
                                \* changed, "paused" the paused flag observed set,
                                \* "read" a packet read, "cut" a pacing wait left
                                \* before the frame was due, "frame" a frame written
     observed |-> -1,           \* the target observed in this iteration, until the
                                \* loop reaches its packet read
     timed |-> FALSE,           \* the sleeps of the decode thread are counted
     slept |-> 0]               \* the milliseconds the decode thread has slept in
                                \* its pacing wait since toggle_pause() last set
                                \* paused_, up to one more than the pause quantum

\* a VideoPlayer as its member initialisers leave it, before its constructor body
PlayerFields ==
    /\ running_ = FALSE
    /\ paused_ = FALSE
    /\ ended_ = FALSE
    /\ seek_target_ = -1
    /\ cur_pts_ = 0
    /\ frame_ready_ = FALSE
    /\ frame_mutex_ = "free"
    /\ subtitle_mutex_ = "free"
    /\ rgb_frame_ = -1
    /\ texture_ = -1
    /\ sub_text = <<>>
    /\ threads = 0
    /\ dpc = "none"
    /\ seek_val = -1
    /\ elapsed = 0
    /\ rect = 0
    /\ dpos = 0
    /\ cpc = "idle"
    /\ carg = 0

\* no function is applied on its own
NoPure ==
    /\ fn = "none"
    /\ arg = <<>>
    /\ res = <<>>

\* a track on its own: a default-constructed SubtitleTrack
Init ==
    /\ entries_ = <<>>
    /\ op = NoOp
    /\ use_embedded_sub_ = FALSE
    /\ PlayerFields
    /\ hist = NoHist
    /\ format_ctx_ = "none"
    /\ video_ctx_ = "none"
    /\ NoPure

Next == LoadSrt \/ LoadAss \/ AddFfmpegEntry \/ Clear

Spec == Init /\ [][Next]_vars


\* ======================================================== claims on the track
\* the instants a lookup is tried at: zero, and every entry's start and end with the
\* millisecond before and after each
Instants(v) ==
    {0} \cup UNION {{v[i].start + d, v[i].end + d} : i \in 1..Len(v), d \in {-1, 0, 1}}

\* the lookup as the specification words it: the entry with the greatest start that
\* is <= t (the last of them in the track when several share that start), its text
\* when t is before its end, the empty string otherwise
ActiveText(v, t) ==
    LET S == {i \in 1..Len(v) : v[i].start <= t}
    IN  IF S = {} THEN <<>>
        ELSE LET g == SetMax({v[i].start : i \in S})
                 i == SetMax({j \in S : v[j].start = g})
             IN  IF t < v[i].end THEN v[i].text ELSE <<>>

\* C1: on a track in non-decreasing start order, get_active(t) is the text of the
\* entry with the greatest start <= t when t is before that entry's end, and the
\* empty string otherwise (an empty track and a t before every start included).
C1_GetActiveIsGreatestStart ==
    IsSortedByStart(entries_) =>
        \A t \in Instants(entries_) : get_active(entries_, t) = ActiveText(entries_, t)

\* a sorted track of several entries where one lookup finds a text and another, at
\* or after some entry's start, finds none
C1_Witness ==
    /\ IsSortedByStart(entries_)
    /\ Len(entries_) >= 2
    /\ \E t \in Instants(entries_) : get_active(entries_, t) # <<>>
    /\ \E t \in Instants(entries_) :
          /\ \E i \in 1..Len(entries_) : entries_[i].start <= t
          /\ get_active(entries_, t) = <<>>

\* C2 as claimed, on the tracks get_active is meant for (those in start order):
\* every stored entry with start < end is what the lookup returns throughout
\* [start, end), and the lookup is empty at its end, whatever else the track holds.
C2_EveryEntryShownInItsInterval ==
    IsSortedByStart(entries_) =>
        \A i \in 1..Len(entries_) :
            LET e == entries_[i]
            IN  e.start < e.end =>
                  /\ \A t \in Instants(entries_) :
                        e.start <= t /\ t < e.end => get_active(entries_, t) = e.text
                  /\ get_active(entries_, e.end) = <<>>

\* no other entry of the track has its start in [e.start, e.end] of entry i
NoOtherStartWithin(v, i) ==
    \A j \in 1..Len(v) : j # i => ~(v[i].start <= v[j].start /\ v[j].start <= v[i].end)

\* C2 amended: on a track in non-decreasing start order, an entry with start < end
\* such that no other entry starts in [start, end] is what the lookup returns
\* throughout [start, end), and the lookup is empty at its end.
C2_EntryShownUnlessAnotherStarts ==
    IsSortedByStart(entries_) =>
        \A i \in 1..Len(entries_) :
            LET e == entries_[i]
            IN  e.start < e.end /\ NoOtherStartWithin(entries_, i) =>
                  /\ \A t \in Instants(entries_) :
                        e.start <= t /\ t < e.end => get_active(entries_, t) = e.text
                  /\ get_active(entries_, e.end) = <<>>

\* a sorted track of three entries with an entry that no other start falls into
C2_Witness ==
    /\ IsSortedByStart(entries_)
    /\ Len(entries_) = 3
    /\ \E i \in 1..Len(entries_) :
          /\ entries_[i].start < entries_[i].end
          /\ NoOtherStartWithin(entries_, i)
          /\ get_active(entries_, entries_[i].start) = entries_[i].text

\* C3 as claimed: after any sequence of load_srt, load_ass, add_ffmpeg_entry and
\* clear the entries are in non-decreasing order of start.
C3_AlwaysSortedByStart == IsSortedByStart(entries_)

\* the SRT files whose accepted cues, in file order, are out of start order
UnorderedSrtFiles == {file \in SrtFiles : ~IsSortedByStart(load_srt(SrtFileLines(file)))}

\* the operation is a load_srt of such a file
LoadsUnorderedSrt(o) == o.name = "load_srt" /\ o.opened /\ o.file \in UnorderedSrtFiles

\* C3 amended: every operation on a track in non-decreasing start order leaves it
\* in non-decreasing start order, except a load_srt of a file whose accepted cues
\* are not in start order: load_srt keeps the file's order and does not sort.
C3_SortedUnlessSrtFileUnordered ==
    op.sorted_before /\ ~LoadsUnorderedSrt(op) => IsSortedByStart(entries_)

\* a live insert has left three entries of different starts in order
C3_Witness ==
    /\ op.name = "add_ffmpeg_entry"
    /\ Len(entries_) = 3
    /\ entries_[1].start < entries_[2].start
    /\ entries_[2].start < entries_[3].start

\* ================================================================ the player
\* Times are in milliseconds.  The container the player reads: a key frame at 0,
\* an audio packet, a subtitle packet shown from 1 for 2 ms whose first rectangle
\* holds text and whose second is a bitmap, and a key frame at 2.
RectsTextThenBitmap == << <<"{", "i", "}", "a">>, <<>> >>

Packet(kind, pts, end_display_time, rects) ==
    [kind |-> kind, pts |-> pts, end_display_time |-> end_display_time, rects |-> rects]

Clip ==
    << Packet("video", 0, 0, <<>>),
       Packet("audio", 0, 0, <<>>),
       Packet("subtitle", 1, 2, RectsTextThenBitmap),
       Packet("video", 2, 0, <<>>) >>

\* a container whose second frame is due 12 ms after its first, and whose subtitle
\* comes without a display duration
SlowClip ==
    << Packet("video", 0, 0, <<>>),
       Packet("audio", 0, 0, <<>>),
       Packet("subtitle", 1, 0, RectsTextThenBitmap),
       Packet("video", 12, 0, <<>>) >>

\* a container whose subtitle packet has three rectangles with text: the first
\* holds nothing but a tag
RectsTagTextText == << <<"{", "x", "}">>, <<"a">>, <<"b">> >>

RectsClip ==
    << Packet("video", 0, 0, <<>>),
       Packet("subtitle", 1, 2, RectsTagTextText),
       Packet("video", 2, 0, <<>>) >>

\* the packets of the container that format_ctx_ has open
Stream ==
    IF format_ctx_ = "slow_clip" THEN SlowClip
    ELSE IF format_ctx_ = "rects_clip" THEN RectsClip
    ELSE Clip

\* the clock difference SDL_GetTicksNS() - start_ns is followed up to the greatest
\* timestamp of the stream: from there on every comparison with a timestamp has
\* the same outcome
ClockCap == SetMax({Stream[i].pts : i \in 1..Len(Stream)})

\* what the consumer passes to seek(), in milliseconds
SeekArgs == {-5, 2}

PaceDelayMs == 1
PauseQuantumMs == 10
EndIdleMs == 100
DefaultSubtitleMs == 3000

\* the external subtitle file beside the media file, when there is one
SrtLineTime1to3Ms == <<"0","0",":","0","0",":","0","0",",","0","0","1"," ","-","-",">"," ",
                       "0","0",":","0","0",":","0","0",",","0","0","3">>
ExternalSrtLines == <<SrtLineSeq1, SrtLineTime1to3Ms, SrtLineHello>>

\* what subtitle_track_.load_file leaves in the track for it
ExternalTrack == load_srt(ExternalSrtLines)

Min(a, b) == IF a < b THEN a ELSE b
Max(a, b) == IF a > b THEN a ELSE b

\* av_seek_frame(..., AVSEEK_FLAG_BACKWARD): the demuxer is left before the last key
\* frame at or before the target; the position stays where it was when there is none
av_seek_frame(pos, target) ==
    LET K == {i \in 1..Len(Stream) : Stream[i].kind = "video" /\ Stream[i].pts <= target}
    IN  IF K = {} THEN pos ELSE SetMax(K) - 1

\* the rectangle after r whose raw_text is not empty, 0 when there is none
next_rect(rects, r) ==
    LET R == {i \in (r + 1)..Len(rects) : rects[i] # <<>>}
    IN  IF R = {} THEN 0 ELSE SetMin(R)

\* the packet av_read_frame returned last
pkt == Stream[dpos]

\* SDL_Delay(ms): at least ms pass
SDL_Delay(e, ms) == Min(e + ms, ClockCap)

\* seek(secs) publishes std::max(0.0, secs)
seek_clamp_none(secs) == secs
seek_clamp(secs) == Max(0, secs)

\* play() returns at once when running_ is set
play_returns_never(r) == FALSE
play_returns_early(r) == r

\* the player is stopped: stop() has returned, or play() was never called, and no
\* later play() has set running_
Stopped == ~running_ /\ cpc # "stop_join"

\* the decode thread writes position, ended flag, ready flag, frame or track
DecodeWrote == [hist EXCEPT !.late_write = @ \/ Stopped]

\* the history after a step, when it is kept
Hist(h) == IF hist.on THEN h ELSE hist

\* the count of slept milliseconds set to ms, where it is kept
Slept(h, ms) == IF hist.timed THEN [h EXCEPT !.slept = ms] ELSE h

\* the trace of the current iteration, where it is kept
Did(h, what) == IF hist.traced THEN [h EXCEPT !.did = @ \cup what] ELSE h
Observed(h, target) ==
    IF hist.traced /\ target >= 0
    THEN [h EXCEPT !.did = @ \cup {"seek"}, !.observed = target] ELSE h
Unobserved(h) == IF hist.traced THEN [h EXCEPT !.observed = -1] ELSE h
NewIteration(h) == IF hist.traced THEN [h EXCEPT !.did = {}, !.observed = -1] ELSE h

EntryKey(start, end) == [start |-> start, end |-> end]

\* the condition of decode_loop's while: running_.load()
while_forever(r) == TRUE
while_running(r) == r

\* a packet goes to the subtitle decoder: use_embedded_sub_ &&
\* pkt->stream_index == subtitle_stream_idx_ && subtitle_ctx_
decodes_subtitle_always(kind, embedded) == kind = "subtitle"
decodes_subtitle(kind, embedded) == embedded /\ kind = "subtitle"

\* std::thread::joinable: a thread was started and has not been joined
joinable_never(pc) == FALSE
joinable(pc) == pc # "none"

\* what each thread leaves alone
\* SDL_Texture* texture_ = nullptr
NoTexture == -2

\* the owner's unique_ptr holds a player: if (player) guards every call in main
HasPlayer == format_ctx_ # "none"

\* avcodec_send_packet / avcodec_receive_frame give a frame only from a decoder
\* that avcodec_open2 has opened
receive_frame(ctx) == ctx = "open"

ConsumerOwned == <<running_, paused_, use_embedded_sub_, texture_, sub_text, cpc, carg>>
DecodeOwned == <<dpc, threads, seek_val, elapsed, rect, dpos, rgb_frame_>>

\* ------------------------------------------------------- decode_loop, by step
\* entry: Uint64 start_ns = SDL_GetTicksNS()
DecodeStart ==
    /\ dpc = "start"
    /\ elapsed' = 0
    /\ dpc' = "top"
    /\ UNCHANGED <<format_ctx_, video_ctx_, pure, track, ConsumerOwned, ended_, seek_target_, cur_pts_, frame_ready_,
                   frame_mutex_, subtitle_mutex_, rgb_frame_, threads, seek_val, rect,
                   dpos, hist>>

\* while (running_.load()); the thread returns when the flag is clear, and its
\* locals are gone
LoopTop ==
    /\ dpc = "top"
    /\ IF while_running(running_)
       THEN dpc' = "seek_load" /\ threads' = threads /\ elapsed' = elapsed
       ELSE dpc' = "done" /\ threads' = threads - 1 /\ elapsed' = 0
    /\ hist' = NewIteration(hist)
    /\ UNCHANGED <<format_ctx_, video_ctx_, pure, track, ConsumerOwned, ended_, seek_target_, cur_pts_, frame_ready_,
                   frame_mutex_, subtitle_mutex_, rgb_frame_, seek_val, rect, dpos>>

\* double seek_val = seek_target_.load(); if (seek_val >= 0.0)
SeekLoad ==
    /\ dpc = "seek_load"
    /\ seek_val' = seek_target_
    /\ dpc' = IF seek_target_ >= 0 THEN "seek_reset" ELSE "pause"
    /\ hist' = Observed(Hist(IF seek_target_ >= 0 /\ hist.risen = "pending"
                             THEN [hist EXCEPT !.risen = "serviced"] ELSE hist),
                        seek_target_)
    /\ UNCHANGED <<format_ctx_, video_ctx_, pure, track, ConsumerOwned, ended_, seek_target_, cur_pts_, frame_ready_,
                   frame_mutex_, subtitle_mutex_, rgb_frame_, threads, elapsed, rect, dpos>>

\* a reset of the pending target that leaves the demuxer where it is
SeekReset_no_reposition ==
    /\ dpc = "seek_reset"
    /\ seek_target_' = -1
    /\ dpc' = IF use_embedded_sub_ THEN "seek_lock" ELSE "seek_clock"
    /\ UNCHANGED <<format_ctx_, video_ctx_, pure, track, ConsumerOwned, ended_, cur_pts_, frame_ready_, frame_mutex_,
                   subtitle_mutex_, rgb_frame_, threads, seek_val, elapsed, rect, hist, dpos>>

\* seek_target_ = -1.0; av_seek_frame; the decoders are flushed, the audio cleared
SeekReset ==
    /\ dpc = "seek_reset"
    /\ seek_target_' = -1
    /\ dpos' = av_seek_frame(dpos, seek_val)
    /\ dpc' = IF use_embedded_sub_ THEN "seek_lock" ELSE "seek_clock"
    /\ UNCHANGED <<format_ctx_, video_ctx_, pure, track, ConsumerOwned, ended_, cur_pts_, frame_ready_, frame_mutex_,
                   subtitle_mutex_, rgb_frame_, threads, seek_val, elapsed, rect, hist>>

\* std::lock_guard lk(subtitle_mutex_)
SeekLock ==
    /\ dpc = "seek_lock"
    /\ subtitle_mutex_ = "free"
    /\ subtitle_mutex_' = "decode"
    /\ dpc' = "seek_clear"
    /\ UNCHANGED <<format_ctx_, video_ctx_, pure, track, ConsumerOwned, ended_, seek_target_, cur_pts_, frame_ready_,
                   frame_mutex_, rgb_frame_, threads, seek_val, elapsed, rect, dpos, hist>>

\* subtitle_track_.clear(); the guard goes out of scope
SeekClear ==
    /\ dpc = "seek_clear"
    /\ entries_' = clear(entries_)
    /\ subtitle_mutex_' = "free"
    /\ dpc' = "seek_clock"
    /\ hist' = Hist([DecodeWrote EXCEPT !.cleared = TRUE, !.since_clear = {}])
    /\ UNCHANGED <<format_ctx_, video_ctx_, pure, op, ConsumerOwned, ended_, seek_target_, cur_pts_, frame_ready_,
                   frame_mutex_, rgb_frame_, threads, seek_val, elapsed, rect, dpos>>

\* start_ns = SDL_GetTicksNS() - seek_val; cur_pts_ = seek_val; seek_val is not
\* read again before the next iteration declares it anew
SeekClock ==
    /\ dpc = "seek_clock"
    /\ elapsed' = Min(seek_val, ClockCap)
    /\ cur_pts_' = seek_val
    /\ seek_val' = -1
    /\ dpc' = "pause"
    /\ hist' = Did(Hist([DecodeWrote EXCEPT !.request = IF @ = seek_val THEN -1 ELSE @]),
                   IF seek_val # cur_pts_ THEN {"moved"} ELSE {})
    /\ UNCHANGED <<format_ctx_, video_ctx_, pure, track, ConsumerOwned, ended_, seek_target_, frame_ready_, frame_mutex_,
                   subtitle_mutex_, rgb_frame_, threads, rect, dpos>>

\* a paused iteration that sleeps and leaves the pacing reference where it is
PauseCheck_no_advance ==
    /\ dpc = "pause"
    /\ IF paused_
       THEN /\ elapsed' = SDL_Delay(elapsed, PauseQuantumMs)
            /\ dpc' = "top"
       ELSE /\ elapsed' = elapsed
            /\ dpc' = "read"
    /\ hist' = IF paused_ THEN Did(hist, {"paused"}) ELSE hist
    /\ UNCHANGED <<format_ctx_, video_ctx_, pure, track, ConsumerOwned, ended_, seek_target_, cur_pts_, frame_ready_,
                   frame_mutex_, subtitle_mutex_, rgb_frame_, threads, seek_val, rect,
                   dpos>>

\* if (paused_.load()) { SDL_Delay(10); start_ns += 10 ms; continue; }
PauseCheck ==
    /\ dpc = "pause"
    /\ IF paused_
       THEN /\ elapsed' = (elapsed + PauseQuantumMs) - PauseQuantumMs
            /\ dpc' = "top"
       ELSE /\ elapsed' = elapsed
            /\ dpc' = "read"
    /\ hist' = IF paused_ THEN Did(hist, {"paused"}) ELSE hist
    /\ UNCHANGED <<format_ctx_, video_ctx_, pure, track, ConsumerOwned, ended_, seek_target_, cur_pts_, frame_ready_,
                   frame_mutex_, subtitle_mutex_, rgb_frame_, threads, seek_val, rect,
                   dpos>>

\* av_read_frame(format_ctx_, pkt), and the branch on the packet's stream; the
\* audio branch feeds the audio device only
ReadFrame ==
    /\ dpc = "read"
    /\ IF dpos = Len(Stream)
       THEN /\ dpc' = "set_ended"
            /\ hist' = Unobserved(Hist(IF hist.risen = "serviced"
                                       THEN [hist EXCEPT !.risen = "no"] ELSE hist))
            /\ UNCHANGED <<format_ctx_, video_ctx_, pure, dpos, rect>>
       ELSE LET p == Stream[dpos + 1]
                r == next_rect(p.rects, 0)
            IN  /\ dpos' = dpos + 1
                /\ hist' = Unobserved(Did(hist, {"read"}))
                /\ IF p.kind = "video"
                   THEN /\ dpc' = (IF receive_frame(video_ctx_) THEN "pace_run" ELSE "top")
                        /\ rect' = rect
                   ELSE IF decodes_subtitle(p.kind, use_embedded_sub_)
                   THEN rect' = r /\ dpc' = (IF r = 0 THEN "top" ELSE "sub_lock")
                   ELSE dpc' = "top" /\ rect' = rect
    /\ UNCHANGED <<format_ctx_, video_ctx_, pure, track, ConsumerOwned, ended_, seek_target_, cur_pts_, frame_ready_,
                   frame_mutex_, subtitle_mutex_, rgb_frame_, threads, seek_val, elapsed>>

\* ended_ = true; SDL_Delay(100); continue;
SetEnded ==
    /\ dpc = "set_ended"
    /\ ended_' = TRUE
    /\ elapsed' = SDL_Delay(elapsed, EndIdleMs)
    /\ dpc' = "top"
    /\ hist' = Hist(DecodeWrote)
    /\ UNCHANGED <<format_ctx_, video_ctx_, pure, track, ConsumerOwned, seek_target_, cur_pts_, frame_ready_,
                   frame_mutex_, subtitle_mutex_, rgb_frame_, threads, seek_val, rect, dpos>>

\* a pacing wait that drops the frame when a stop request ends it
PaceRun_stop_drops_frame ==
    /\ dpc = "pace_run"
    /\ dpc' = IF running_ THEN "pace_seek" ELSE IF elapsed < pkt.pts THEN "top" ELSE "frame_lock"
    /\ hist' = IF ~running_ /\ elapsed < pkt.pts THEN Did(hist, {"cut"}) ELSE hist
    /\ UNCHANGED <<format_ctx_, video_ctx_, pure, track, ConsumerOwned, ended_, seek_target_, cur_pts_, frame_ready_,
                   frame_mutex_, subtitle_mutex_, rgb_frame_, threads, seek_val, elapsed,
                   rect, dpos>>

\* the pacing wait: while (running_.load() && ...
PaceRun ==
    /\ dpc = "pace_run"
    /\ dpc' = IF running_ THEN "pace_seek" ELSE "frame_lock"
    /\ hist' = IF ~running_ /\ elapsed < pkt.pts THEN Did(hist, {"cut"}) ELSE hist
    /\ UNCHANGED <<format_ctx_, video_ctx_, pure, track, ConsumerOwned, ended_, seek_target_, cur_pts_, frame_ready_,
                   frame_mutex_, subtitle_mutex_, rgb_frame_, threads, seek_val, elapsed,
                   rect, dpos>>

\* a loop that goes on to the frame without waiting for its time
PaceSeek_no_wait ==
    /\ dpc = "pace_seek"
    /\ elapsed' = elapsed
    /\ dpc' = "frame_lock"
    /\ hist' = IF seek_target_ >= 0 /\ elapsed < pkt.pts THEN Did(hist, {"cut"}) ELSE hist
    /\ UNCHANGED <<format_ctx_, video_ctx_, pure, track, ConsumerOwned, ended_, seek_target_, cur_pts_, frame_ready_,
                   frame_mutex_, subtitle_mutex_, rgb_frame_, threads, seek_val, rect,
                   dpos>>

\* ... && seek_target_.load() < 0.0 && SDL_GetTicksNS() < start_ns + pts) SDL_Delay(1);
PaceSeek ==
    /\ dpc = "pace_seek"
    /\ IF seek_target_ < 0 /\ elapsed < pkt.pts
       THEN /\ elapsed' = SDL_Delay(elapsed, PaceDelayMs)
            /\ dpc' = "pace_run"
            /\ hist' = Slept(hist, IF paused_
                                   THEN Min(hist.slept + PaceDelayMs, PauseQuantumMs + 1)
                                   ELSE 0)
       ELSE /\ elapsed' = elapsed
            /\ dpc' = "frame_lock"
            /\ hist' = IF elapsed < pkt.pts THEN Did(hist, {"cut"}) ELSE hist
    /\ UNCHANGED <<format_ctx_, video_ctx_, pure, track, ConsumerOwned, ended_, seek_target_, cur_pts_, frame_ready_,
                   frame_mutex_, subtitle_mutex_, rgb_frame_, threads, seek_val, rect,
                   dpos>>

\* a producer that waits until the consumer has taken the frame before it
FrameLock_after_drain ==
    /\ dpc = "frame_lock"
    /\ ~frame_ready_
    /\ frame_mutex_ = "free"
    /\ frame_mutex_' = "decode"
    /\ dpc' = "frame_write"
    /\ UNCHANGED <<format_ctx_, video_ctx_, pure, track, ConsumerOwned, ended_, seek_target_, cur_pts_, frame_ready_,
                   subtitle_mutex_, rgb_frame_, threads, seek_val, elapsed, rect, dpos, hist>>

\* std::lock_guard lock(frame_mutex_)
FrameLock ==
    /\ dpc = "frame_lock"
    /\ frame_mutex_ = "free"
    /\ frame_mutex_' = "decode"
    /\ dpc' = "frame_write"
    /\ UNCHANGED <<format_ctx_, video_ctx_, pure, track, ConsumerOwned, ended_, seek_target_, cur_pts_, frame_ready_,
                   subtitle_mutex_, rgb_frame_, threads, seek_val, elapsed, rect, dpos, hist>>

\* sws_scale into rgb_frame_; frame_ready_ = true; the guard goes out of scope
FrameWrite ==
    /\ dpc = "frame_write"
    /\ rgb_frame_' = pkt.pts
    /\ frame_ready_' = TRUE
    /\ frame_mutex_' = "free"
    /\ dpc' = "publish"
    /\ hist' = Did(Hist(DecodeWrote), {"frame"})
    /\ UNCHANGED <<format_ctx_, video_ctx_, pure, track, ConsumerOwned, ended_, seek_target_, cur_pts_, subtitle_mutex_,
                   threads, seek_val, elapsed, rect, dpos>>

\* cur_pts_ = pts; the decoder has no further frame for the packet
PublishPts ==
    /\ dpc = "publish"
    /\ cur_pts_' = pkt.pts
    /\ dpc' = "top"
    /\ hist' = Did(Hist(DecodeWrote), IF pkt.pts # cur_pts_ THEN {"moved"} ELSE {})
    /\ UNCHANGED <<format_ctx_, video_ctx_, pure, track, ConsumerOwned, ended_, seek_target_, frame_ready_, frame_mutex_,
                   subtitle_mutex_, rgb_frame_, threads, seek_val, elapsed, rect, dpos>>

\* an insert that does not take the lock
SubLock_unguarded ==
    /\ dpc = "sub_lock"
    /\ dpc' = "sub_add"
    /\ UNCHANGED <<format_ctx_, video_ctx_, pure, track, ConsumerOwned, ended_, seek_target_, cur_pts_, frame_ready_,
                   frame_mutex_, subtitle_mutex_, rgb_frame_, threads, seek_val, elapsed, rect, dpos, hist>>

\* a rectangle with text: std::lock_guard lk(subtitle_mutex_)
SubLock ==
    /\ dpc = "sub_lock"
    /\ subtitle_mutex_ = "free"
    /\ subtitle_mutex_' = "decode"
    /\ dpc' = "sub_add"
    /\ UNCHANGED <<format_ctx_, video_ctx_, pure, track, ConsumerOwned, ended_, seek_target_, cur_pts_, frame_ready_,
                   frame_mutex_, rgb_frame_, threads, seek_val, elapsed, rect, dpos, hist>>

\* subtitle_track_.add_ffmpeg_entry(start, end, raw_text); the guard goes out of
\* scope; on to the next rectangle with text
SubAdd ==
    /\ dpc = "sub_add"
    /\ LET start == pkt.pts
           end == IF pkt.end_display_time > 0
                  THEN start + pkt.end_display_time
                  ELSE start + DefaultSubtitleMs
           v == add_ffmpeg_entry(entries_, start, end, pkt.rects[rect])
           r == next_rect(pkt.rects, rect)
           added == IF v = entries_ THEN {} ELSE {EntryKey(start, end)}
       IN  /\ entries_' = v
           /\ rect' = r
           /\ dpc' = IF r = 0 THEN "top" ELSE "sub_lock"
           /\ hist' = Hist([DecodeWrote EXCEPT !.since_seek = @ \cup added,
                                               !.since_clear = @ \cup added])
    /\ subtitle_mutex_' = "free"
    /\ UNCHANGED <<format_ctx_, video_ctx_, pure, op, ConsumerOwned, ended_, seek_target_, cur_pts_, frame_ready_,
                   frame_mutex_, rgb_frame_, threads, seek_val, elapsed, dpos>>

\* time passes while the decode thread is between two steps
Tick ==
    /\ dpc \notin {"none", "done"}
    /\ elapsed < ClockCap
    /\ elapsed' = elapsed + 1
    /\ UNCHANGED <<format_ctx_, video_ctx_, pure, track, ConsumerOwned, ended_, seek_target_, cur_pts_, frame_ready_,
                   frame_mutex_, subtitle_mutex_, rgb_frame_, threads, dpc, seek_val,
                   rect, dpos, hist>>

DecodeStep ==
    \/ DecodeStart \/ LoopTop \/ SeekLoad \/ SeekReset \/ SeekLock \/ SeekClear
    \/ SeekClock \/ PauseCheck \/ ReadFrame \/ SetEnded \/ PaceRun \/ PaceSeek
    \/ FrameLock \/ FrameWrite \/ PublishPts \/ SubLock \/ SubAdd

\* ------------------------------------------- the consumer thread's calls, by step
\* play() is called
Play ==
    /\ cpc = "idle"
    /\ HasPlayer
    /\ cpc' = "play_check"
    /\ UNCHANGED <<format_ctx_, video_ctx_, pure, track, running_, paused_, ended_, seek_target_, cur_pts_, frame_ready_,
                   use_embedded_sub_, frame_mutex_, subtitle_mutex_, texture_, sub_text,
                   DecodeOwned, carg, hist>>

\* if (running_.load()) return;
PlayCheck ==
    /\ cpc = "play_check"
    /\ cpc' = IF play_returns_early(running_) THEN "idle" ELSE "play_run"
    /\ UNCHANGED <<format_ctx_, video_ctx_, pure, track, running_, paused_, ended_, seek_target_, cur_pts_, frame_ready_,
                   use_embedded_sub_, frame_mutex_, subtitle_mutex_, texture_, sub_text,
                   DecodeOwned, carg, hist>>

\* running_ = true;
PlayRun ==
    /\ cpc = "play_run"
    /\ running_' = TRUE
    /\ cpc' = "play_ended"
    /\ hist' = Hist([hist EXCEPT !.stop = IF @ = "no" THEN "no" ELSE "replayed"])
    /\ UNCHANGED <<format_ctx_, video_ctx_, pure, track, paused_, ended_, seek_target_, cur_pts_, frame_ready_,
                   use_embedded_sub_, frame_mutex_, subtitle_mutex_, texture_, sub_text,
                   DecodeOwned, carg>>

\* ended_ = false;
PlayEnded ==
    /\ cpc = "play_ended"
    /\ ended_' = FALSE
    /\ cpc' = "play_spawn"
    /\ UNCHANGED <<format_ctx_, video_ctx_, pure, track, running_, paused_, seek_target_, cur_pts_, frame_ready_,
                   use_embedded_sub_, frame_mutex_, subtitle_mutex_, texture_, sub_text,
                   DecodeOwned, carg, hist>>

\* decode_thread_ = std::thread(&VideoPlayer::decode_loop, this); assigning to a
\* joinable std::thread calls std::terminate
PlaySpawn ==
    /\ cpc = "play_spawn"
    /\ IF joinable(dpc)
       THEN cpc' = "terminate" /\ UNCHANGED <<format_ctx_, video_ctx_, pure, dpc, threads>>
       ELSE cpc' = "idle" /\ dpc' = "start" /\ threads' = threads + 1
    /\ UNCHANGED <<format_ctx_, video_ctx_, pure, track, running_, paused_, ended_, seek_target_, cur_pts_, frame_ready_,
                   use_embedded_sub_, frame_mutex_, subtitle_mutex_, texture_, sub_text,
                   rgb_frame_, seek_val, elapsed, rect, dpos, carg, hist>>

\* stop(): running_ = false;
Stop ==
    /\ cpc = "idle"
    /\ HasPlayer
    /\ running_' = FALSE
    /\ cpc' = "stop_join"
    /\ hist' = Hist([hist EXCEPT !.request = -1, !.risen = "no",
                                 !.stop = IF running_ THEN "stopped" ELSE @])
    /\ UNCHANGED <<format_ctx_, video_ctx_, pure, track, paused_, ended_, seek_target_, cur_pts_, frame_ready_,
                   use_embedded_sub_, frame_mutex_, subtitle_mutex_, texture_, sub_text,
                   DecodeOwned, carg>>

\* if (decode_thread_.joinable()) decode_thread_.join();
StopJoin ==
    /\ cpc = "stop_join"
    /\ IF joinable(dpc)
       THEN dpc = "done" /\ dpc' = "none"
       ELSE dpc' = dpc
    /\ cpc' = "idle"
    /\ UNCHANGED <<format_ctx_, video_ctx_, pure, track, running_, paused_, ended_, seek_target_, cur_pts_, frame_ready_,
                   use_embedded_sub_, frame_mutex_, subtitle_mutex_, texture_, sub_text,
                   rgb_frame_, threads, seek_val, elapsed, rect, dpos, carg, hist>>

\* toggle_pause(): paused_ = !paused_;
TogglePause ==
    /\ cpc = "idle"
    /\ HasPlayer
    /\ paused_' = ~paused_
    /\ hist' = Slept(Hist([hist EXCEPT !.stop = IF @ = "stopped" THEN "poked" ELSE @]), 0)
    /\ UNCHANGED <<format_ctx_, video_ctx_, pure, track, running_, ended_, seek_target_, cur_pts_, frame_ready_,
                   use_embedded_sub_, frame_mutex_, subtitle_mutex_, texture_, sub_text,
                   DecodeOwned, cpc, carg>>

\* seek(secs): seek_target_ = std::max(0.0, secs);
Seek ==
    \E secs \in SeekArgs :
        /\ cpc = "idle"
        /\ HasPlayer
        /\ carg' = secs
        /\ seek_target_' = seek_clamp(secs)
        /\ cpc' = "seek_ended"
        /\ hist' = Hist([hist EXCEPT
                      !.request = IF running_ THEN seek_clamp(secs) ELSE @,
                      !.risen = IF running_ /\ ended_ THEN "pending" ELSE @,
                      !.sought = @ \/ use_embedded_sub_,
                      !.since_seek = IF use_embedded_sub_ THEN {} ELSE @,
                      !.stop = IF @ = "stopped" THEN "poked" ELSE @])
        /\ UNCHANGED <<format_ctx_, video_ctx_, pure, track, running_, paused_, ended_, cur_pts_, frame_ready_,
                       use_embedded_sub_, frame_mutex_, subtitle_mutex_, texture_,
                       sub_text, DecodeOwned>>

\* ended_ = false; and seek() returns
SeekEnded ==
    /\ cpc = "seek_ended"
    /\ ended_' = FALSE
    /\ cpc' = "idle"
    /\ carg' = 0
    /\ UNCHANGED <<format_ctx_, video_ctx_, pure, track, running_, paused_, seek_target_, cur_pts_, frame_ready_,
                   use_embedded_sub_, frame_mutex_, subtitle_mutex_, texture_, sub_text,
                   DecodeOwned, hist>>

\* update(): if (!frame_ready_.load()) return !ended_.load();
Update ==
    /\ cpc = "idle"
    /\ HasPlayer
    /\ cpc' = IF frame_ready_ THEN "update_lock" ELSE "idle"
    /\ UNCHANGED <<format_ctx_, video_ctx_, pure, track, running_, paused_, ended_, seek_target_, cur_pts_, frame_ready_,
                   use_embedded_sub_, frame_mutex_, subtitle_mutex_, texture_, sub_text,
                   DecodeOwned, carg, hist>>

\* std::lock_guard lock(frame_mutex_);
UpdateLock ==
    /\ cpc = "update_lock"
    /\ frame_mutex_ = "free"
    /\ frame_mutex_' = "consumer"
    /\ cpc' = "update_copy"
    /\ UNCHANGED <<format_ctx_, video_ctx_, pure, track, running_, paused_, ended_, seek_target_, cur_pts_, frame_ready_,
                   use_embedded_sub_, subtitle_mutex_, texture_, sub_text, DecodeOwned,
                   carg, hist>>

\* if (frame_ready_.load()) { SDL_UpdateTexture; frame_ready_ = false; } and the
\* guard goes out of scope
UpdateCopy ==
    /\ cpc = "update_copy"
    /\ IF frame_ready_
       THEN texture_' = rgb_frame_ /\ frame_ready_' = FALSE
       ELSE UNCHANGED <<texture_, frame_ready_>>
    /\ frame_mutex_' = "free"
    /\ cpc' = "idle"
    /\ UNCHANGED <<format_ctx_, video_ctx_, pure, track, running_, paused_, ended_, seek_target_, cur_pts_,
                   use_embedded_sub_, subtitle_mutex_, sub_text, DecodeOwned, carg, hist>>

\* get_subtitle_text(): std::lock_guard lk(subtitle_mutex_);
GetSubtitleText ==
    /\ cpc = "idle"
    /\ HasPlayer
    /\ subtitle_mutex_ = "free"
    /\ subtitle_mutex_' = "consumer"
    /\ cpc' = "sub_read"
    /\ UNCHANGED <<format_ctx_, video_ctx_, pure, track, running_, paused_, ended_, seek_target_, cur_pts_, frame_ready_,
                   use_embedded_sub_, frame_mutex_, texture_, sub_text, DecodeOwned,
                   carg, hist>>

\* return subtitle_track_.get_active(cur_pts_.load()); the guard goes out of scope
SubRead ==
    /\ cpc = "sub_read"
    /\ sub_text' = get_active(entries_, cur_pts_)
    /\ subtitle_mutex_' = "free"
    /\ cpc' = "sub_return"
    /\ UNCHANGED <<format_ctx_, video_ctx_, pure, track, running_, paused_, ended_, seek_target_, cur_pts_, frame_ready_,
                   use_embedded_sub_, frame_mutex_, texture_, DecodeOwned, carg, hist>>

\* the caller takes the returned string
SubReturn ==
    /\ cpc = "sub_return"
    /\ sub_text' = <<>>
    /\ cpc' = "idle"
    /\ UNCHANGED <<format_ctx_, video_ctx_, pure, track, running_, paused_, ended_, seek_target_, cur_pts_, frame_ready_,
                   use_embedded_sub_, frame_mutex_, subtitle_mutex_, texture_, DecodeOwned,
                   carg, hist>>

ConsumerStep ==
    \/ Play \/ PlayCheck \/ PlayRun \/ PlayEnded \/ PlaySpawn \/ Stop \/ StopJoin
    \/ TogglePause \/ Seek \/ SeekEnded \/ Update \/ UpdateLock \/ UpdateCopy
    \/ GetSubtitleText \/ SubRead \/ SubReturn

\* a valid VideoPlayer after its constructor: the external file beside the media
\* file was loaded, or there is none and the embedded subtitle stream is used
Constructed ==
    /\ PlayerFields
    /\ format_ctx_ = "clip"
    /\ video_ctx_ = "open"
    /\ NoPure
    /\ op = NoOp
    /\ \/ use_embedded_sub_ = FALSE /\ entries_ = ExternalTrack
       \/ use_embedded_sub_ = TRUE /\ entries_ = <<>>

InitPlayer == Constructed /\ hist = NoHist

NextPlayer == DecodeStep \/ ConsumerStep \/ Tick

SpecPlayer == InitPlayer /\ [][NextPlayer]_vars

\* the same player with no history kept, for the properties of progress
InitFair == Constructed /\ hist = [NoHist EXCEPT !.on = FALSE]

\* the scheduler runs the decode thread whenever it can take a step, and stop()
\* returns once its join can
FairPlayer ==
    InitFair /\ [][NextPlayer]_vars /\ WF_vars(DecodeStep) /\ WF_vars(StopJoin)

\* ======================================================= claims on the player
\* C4: after stop() returns the decode thread has exited: while the player is
\* stopped there is no decode thread, and the decode thread never writes the
\* position, the ended flag, the ready flag, the frame or the track while the
\* player is stopped.
C4_NoWriteAfterStop ==
    /\ Stopped => dpc = "none" /\ threads = 0
    /\ ~hist.late_write

\* stop() has returned on a player whose thread had published a frame and a position
C4_Witness ==
    /\ Stopped
    /\ cpc = "idle"
    /\ rgb_frame_ = 2
    /\ cur_pts_ = 2
    /\ dpc = "none"

\* C5: stop() terminates: under fair scheduling of the decode thread, whenever
\* stop() has cleared the running flag and waits in its join, it returns.
C5_StopTerminates == (cpc = "stop_join") ~> (cpc = "idle")

\* stop() waits for a paused thread that is inside the pacing wait of a frame
C5_Witness ==
    /\ cpc = "stop_join"
    /\ dpc = "pace_seek"
    /\ paused_
    /\ elapsed < pkt.pts

\* C6: play() does nothing when the player is running: it gets past its check only
\* when the flag is clear and no thread exists; there is never more than one decode
\* thread, and play() never assigns a thread over a joinable one.
C6_AtMostOneDecodeThread ==
    /\ threads <= 1
    /\ cpc # "terminate"
    /\ cpc = "play_run" => ~running_
    /\ cpc \in {"play_run", "play_ended", "play_spawn"} => dpc = "none" /\ threads = 0

\* play() is called on a running player whose thread is in its loop
C6_Witness ==
    /\ cpc = "play_check"
    /\ running_
    /\ threads = 1
    /\ dpc \notin {"none", "done", "start"}

\* C7: seek(t) publishes max(0, t) as the pending target and then clears the ended
\* flag; in every state the pending target is the sentinel -1 or a value >= 0.
C7_SeekPublishesClampedTarget ==
    /\ [](seek_target_ = -1 \/ seek_target_ >= 0)
    /\ [][cpc = "idle" /\ cpc' = "seek_ended" => seek_target_' = Max(0, carg')]_vars
    /\ [][cpc = "seek_ended" /\ cpc' = "idle" => ~ended_']_vars

\* seek() with a negative time has published 0 on a player whose stream has ended
C7_Witness ==
    /\ cpc = "seek_ended"
    /\ carg < 0
    /\ seek_target_ = 0
    /\ ended_
    /\ running_

\* C8 as claimed: no seek() made while the decode thread runs is lost: until the
\* loop sets the position to its target, the target is the pending one or the one
\* the loop is servicing.
C8_NoSeekLost ==
    hist.request # -1 =>
        \/ seek_target_ = hist.request
        \/ dpc \in {"seek_reset", "seek_lock", "seek_clear", "seek_clock"}
              /\ seek_val = hist.request

\* C9 as claimed: after seek() has returned on a running player whose ended flag
\* was set, the flag stays clear until the loop reads end-of-stream after it has
\* read that seek's target.
C9_EndedStaysClear ==
    hist.risen # "no" /\ cpc # "seek_ended" => ~ended_

\* an entry covers the position
Covers(e, t) == e.start <= t /\ t < e.end

\* get_subtitle_text() holds the lock and is about to look the position up: what
\* it is going to return
Lookup == get_active(entries_, cur_pts_)

\* C10 as claimed: once seek() has been called with the embedded stream as the
\* source, get_subtitle_text() returns a text only from an entry inserted since
\* that call that covers the position looked up.
C10_EmptyRightAfterSeek ==
    use_embedded_sub_ /\ hist.sought /\ cpc = "sub_read" /\ Lookup # <<>> =>
        \E e \in hist.since_seek : Covers(e, cur_pts_)

\* C10 amended: once the decode loop has cleared the track while servicing a seek,
\* get_subtitle_text() returns a text only from an entry inserted since that clear
\* that covers the position looked up.
C10_EmptyAfterSeekServiced ==
    use_embedded_sub_ /\ hist.cleared /\ cpc = "sub_read" /\ Lookup # <<>> =>
        \E e \in hist.since_clear : Covers(e, cur_pts_)

\* the loop has serviced a seek to 2 and nothing was inserted since: the lookup
\* at 2, which the entry decoded before the seek covered, returns the empty string
C10_Witness ==
    /\ use_embedded_sub_
    /\ hist.cleared
    /\ hist.since_clear = {}
    /\ cpc = "sub_read"
    /\ cur_pts_ = 2
    /\ Lookup = <<>>

\* C11: when an external subtitle file was loaded at construction, the track holds
\* exactly that file's entries in every later state: the decode loop inserts no
\* embedded entry and does not clear the track when it services a seek.
C11_ExternalTrackUnchanged ==
    ~use_embedded_sub_ /\ format_ctx_ # "none" => entries_ = ExternalTrack

\* with an external track, the loop has read past the subtitle packet and published
\* the last frame, and is now servicing a seek
C11_Witness ==
    /\ ~use_embedded_sub_
    /\ entries_ # <<>>
    /\ rgb_frame_ = 2
    /\ dpc = "seek_clock"

\* C12 as claimed: whenever the consumer, inside update(), sees the ready flag set
\* for the frame in the shared buffer, the position it can read is not older than
\* that frame's timestamp.
C12_ReadyFrameNotAheadOfPosition ==
    cpc = "update_copy" /\ frame_ready_ => cur_pts_ >= rgb_frame_

\* C15 as claimed: once stop() has been called on a running or paused player, the
\* player is never Running again, whatever play(), toggle_pause() or seek() calls
\* follow.
C15_StoppedIsTerminal ==
    hist.stop # "no" => ~running_

\* C15, amended: after stop() has returned, toggle_pause() and seek() leave the
\* player Stopped, with no decode thread; it stays so until the next play().
C15_StoppedUntilPlay ==
    hist.stop \in {"stopped", "poked"} /\ cpc # "stop_join" => ~running_ /\ threads = 0

C15_Witness ==
    /\ hist.stop = "poked"
    /\ cpc = "idle"
    /\ seek_target_ >= 0
    /\ ~running_

\* the sequence v without its k-th element
without(v, k) == SubSeq(v, 1, k - 1) \o SubSeq(v, k + 1, Len(v))

\* the starts of a track, in its order
starts_of(v) == [i \in 1..Len(v) |-> v[i].start]

\* C17: add_ffmpeg_entry on a track in non-decreasing start order leaves it in
\* non-decreasing start order; when the cleaned text is not empty the result is the
\* old track with exactly one entry (the new one) put in, the old entries in their
\* old order; when the cleaned text is empty the track is unchanged; and inserting
\* the starts 5.0, 2.0, 8.0 into an empty track gives the order 2.0, 5.0, 8.0.
C17_InsertKeepsOrder ==
    /\ IsSortedByStart(entries_) =>
          \A start \in AddStarts, d \in AddDurations, raw_text \in AddTexts :
              LET w == add_ffmpeg_entry(entries_, start, start + d, raw_text)
                  text == clean_text(raw_text)
              IN  /\ IsSortedByStart(w)
                  /\ text # <<>> =>
                        /\ Len(w) = Len(entries_) + 1
                        /\ \E k \in 1..Len(w) :
                              /\ w[k] = SubtitleEntry(start, start + d, text)
                              /\ without(w, k) = entries_
                  /\ text = <<>> => w = entries_
    /\ starts_of(add_ffmpeg_entry(add_ffmpeg_entry(add_ffmpeg_entry(
                     <<>>, 5000, 6000, <<"a">>), 2000, 3000, <<"b">>), 8000, 9000, <<"c">>))
          = <<2000, 5000, 8000>>

\* a live insert into a sorted track has put an entry before one that starts later
C17_Witness ==
    /\ op.name = "add_ffmpeg_entry"
    /\ op.sorted_before
    /\ Len(entries_) = 2
    /\ entries_[1].start = 1000
    /\ entries_[1].text = <<"b">>
    /\ entries_[2].start = 2000
    /\ entries_[2].text = <<"a">>
    /\ add_ffmpeg_entry(<<entries_[2]>>, 1000, entries_[1].end, <<" ", "b", "\\", "N">>) = entries_

\* the characters clean_text trims
Blank == {" ", "\t", "\r", "\n"}

\* C18: no stored entry has an empty text, and no stored text begins or ends with a
\* space, tab, carriage return or line feed.
C18_StoredTextTrimmedNonEmpty ==
    \A i \in 1..Len(entries_) :
        LET text == entries_[i].text
        IN  /\ text # <<>>
            /\ text[1] \notin Blank
            /\ text[Len(text)] \notin Blank

\* three stored entries, one of them added live from a text with a leading space
\* and a trailing line-break escape
C18_Witness ==
    /\ op.name = "add_ffmpeg_entry"
    /\ Len(entries_) = 3
    /\ \E i \in 1..Len(entries_) :
          /\ entries_[i].text = <<"b">>
          /\ entries_[i].text = clean_text(<<" ", "b", "\\", "N">>)

\* C19 as claimed: every stored entry has 0 <= start and start < end, whatever the
\* input was.
C19_EveryEntryHasValidRange == HasValidRanges(entries_)

\* the files that hold a cue which is stored with a start that is not before its end
SrtFilesWithInvalidRange == {l[1] : l \in {m \in SrtLoads : ~HasValidRanges(m[2])}}
AssFilesWithInvalidRange == {l[1] : l \in {m \in AssLoads : ~HasValidRanges(m[2])}}

\* the operation is a load of such a file
LoadsInvalidRange(o) ==
    \/ o.name = "load_srt" /\ o.opened /\ o.file \in SrtFilesWithInvalidRange
    \/ o.name = "load_ass" /\ o.opened /\ o.file \in AssFilesWithInvalidRange

\* C19 amended: the times are stored as given, without validation.  Every
\* operation on a track whose entries all have 0 <= start < end leaves such a
\* track (add_ffmpeg_entry being called with 0 <= start < end), except a load of a
\* file with a cue whose time line is missing or does not give a start before its
\* end: that cue is stored with the times as parsed, zero for what did not parse.
C19_ValidUnlessFileGivesInvalidRange ==
    op.valid_before /\ ~LoadsInvalidRange(op) => HasValidRanges(entries_)

\* a live insert into a track of two valid entries
C19_Witness ==
    /\ op.name = "add_ffmpeg_entry"
    /\ op.valid_before
    /\ Len(entries_) = 3
    /\ HasValidRanges(entries_)
    /\ \E i \in 1..3 : entries_[i].start = 2000 /\ entries_[i].end = 5000

\* ============================================================ clean_text alone
\* The characters of the texts handed to clean_text: an ordinary character, the
\* blanks, the tag delimiters, and the characters of the line-break escapes.
TextChars == {"a", " ", "\n", "{", "}", "<", ">", "\\", "N", "n"}

\* the texts of at most MaxTextLen characters
Texts == UNION {[1..n -> TextChars] : n \in 0..MaxTextLen}

\* a text is chosen and nothing has been applied to it
InitClean ==
    /\ entries_ = <<>>
    /\ op = NoOp
    /\ use_embedded_sub_ = FALSE
    /\ PlayerFields
    /\ hist = NoHist
    /\ format_ctx_ = "none"
    /\ video_ctx_ = "none"
    /\ fn = "none"
    /\ arg \in Texts
    /\ res = <<>>

\* clean_text(arg)
CleanText ==
    /\ fn = "none"
    /\ fn' = "clean_text"
    /\ res' = clean_text(arg)
    /\ UNCHANGED <<entries_, op, player, arg>>

\* clean_text applied to what clean_text returned
CleanTextAgain ==
    /\ fn = "clean_text"
    /\ fn' = "clean_text_twice"
    /\ res' = clean_text(res)
    /\ UNCHANGED <<entries_, op, player, arg>>

\* strip_ass_tags(arg)
StripAssTags ==
    /\ fn = "none"
    /\ fn' = "strip_ass_tags"
    /\ res' = strip_ass_tags(arg)
    /\ UNCHANGED <<entries_, op, player, arg>>

\* strip_html_tags(arg)
StripHtmlTags ==
    /\ fn = "none"
    /\ fn' = "strip_html_tags"
    /\ res' = strip_html_tags(arg)
    /\ UNCHANGED <<entries_, op, player, arg>>

NextClean == CleanText \/ CleanTextAgain \/ StripAssTags \/ StripHtmlTags

SpecClean == InitClean /\ [][NextClean]_vars

\* C20: clean_text is idempotent: cleaning a text that clean_text returned gives
\* that text again, for texts of ordinary characters, braces, angle brackets,
\* line-break escapes and blanks.
C20_CleanTextIdempotent ==
    [][fn = "clean_text" /\ fn' = "clean_text_twice" => res' = res]_vars

\* a text whose escape became a line break inside the result has been cleaned twice
C20_Witness ==
    /\ fn = "clean_text_twice"
    /\ Len(arg) = MaxTextLen
    /\ res # arg
    /\ res # <<>>
    /\ \A i \in 1..Len(arg) : arg[i] # "\n"
    /\ \E i \in 1..Len(res) : res[i] = "\n"

\* ================================================= the owner of the player
\* main holds the player in a unique_ptr and replaces it through load_media.  The
\* owner is the thread that calls the player's methods, so its steps are steps of
\* the consumer.

\* what the constructor can leave: the container did not open; it opened but has
\* no video stream; avcodec_open2 failed on the video decoder, its result unread;
\* SDL_CreateTexture failed; or everything opened
Outcomes == {"no_container", "no_video", "codec_unopened", "no_texture", "opened"}

format_ctx_of(o) == IF o = "no_container" THEN "none" ELSE "clip"

video_ctx_of(o) ==
    IF o \in {"no_container", "no_video"} THEN "none"
    ELSE IF o = "codec_unopened" THEN "unopened"
    ELSE "open"

texture_of(o) == IF o \in {"codec_unopened", "opened"} THEN -1 ELSE NoTexture

\* the constructor returns before the subtitle block
returns_before_subtitles(o) == o \in {"no_container", "no_video"}

\* is_valid(): format_ctx_ && video_ctx_ && texture_
is_valid == format_ctx_ # "none" /\ video_ctx_ # "none" /\ texture_ # NoTexture

\* load_media(): player.reset(); with no player held there is nothing to destroy
LoadMedia ==
    /\ cpc = "idle"
    /\ cpc' = IF HasPlayer THEN "dtor_stop" ELSE "construct"
    /\ UNCHANGED <<format_ctx_, video_ctx_, pure, track, running_, paused_, ended_, seek_target_,
                   cur_pts_, frame_ready_, use_embedded_sub_, frame_mutex_, subtitle_mutex_,
                   texture_, sub_text, DecodeOwned, carg, hist>>

\* ~VideoPlayer(): stop(): running_ = false;
DtorStop ==
    /\ cpc = "dtor_stop"
    /\ running_' = FALSE
    /\ cpc' = "dtor_join"
    /\ UNCHANGED <<format_ctx_, video_ctx_, pure, track, paused_, ended_, seek_target_, cur_pts_,
                   frame_ready_, use_embedded_sub_, frame_mutex_, subtitle_mutex_, texture_,
                   sub_text, DecodeOwned, carg, hist>>

\* if (decode_thread_.joinable()) decode_thread_.join();
DtorJoin ==
    /\ cpc = "dtor_join"
    /\ IF joinable(dpc)
       THEN dpc = "done" /\ dpc' = "none"
       ELSE dpc' = dpc
    /\ cpc' = "cleanup"
    /\ UNCHANGED <<format_ctx_, video_ctx_, pure, track, running_, paused_, ended_, seek_target_,
                   cur_pts_, frame_ready_, use_embedded_sub_, frame_mutex_, subtitle_mutex_,
                   texture_, sub_text, rgb_frame_, threads, seek_val, elapsed, rect, dpos,
                   carg, hist>>

\* cleanup() frees the frame, the decoders, the container and the texture, and the
\* members go with the object; create_player() follows
Cleanup ==
    /\ cpc = "cleanup"
    /\ format_ctx_' = "none"
    /\ video_ctx_' = "none"
    /\ texture_' = NoTexture
    /\ rgb_frame_' = -1
    /\ entries_' = <<>>
    /\ use_embedded_sub_' = FALSE
    /\ paused_' = FALSE
    /\ ended_' = FALSE
    /\ seek_target_' = -1
    /\ cur_pts_' = 0
    /\ frame_ready_' = FALSE
    /\ cpc' = "construct"
    /\ UNCHANGED <<pure, op, running_, frame_mutex_, subtitle_mutex_, sub_text, dpc, threads,
                   seek_val, elapsed, rect, dpos, carg, hist>>

\* create_player(): std::make_unique<VideoPlayer>(...): the constructor, with what
\* it finds beside and inside the media file
Construct ==
    \E o \in Outcomes, embedded \in BOOLEAN :
        /\ cpc = "construct"
        /\ returns_before_subtitles(o) => ~embedded
        /\ format_ctx_' = format_ctx_of(o)
        /\ video_ctx_' = video_ctx_of(o)
        /\ texture_' = texture_of(o)
        /\ use_embedded_sub_' = embedded
        /\ entries_' = IF returns_before_subtitles(o) \/ embedded THEN <<>> ELSE ExternalTrack
        /\ dpos' = 0
        /\ cpc' = "is_valid"
        /\ UNCHANGED <<pure, op, running_, paused_, ended_, seek_target_, cur_pts_, frame_ready_,
                       frame_mutex_, subtitle_mutex_, rgb_frame_, sub_text, dpc, threads,
                       seek_val, elapsed, rect, carg, hist>>

\* if (!p->is_valid()) return nullptr; the unique_ptr destroys the player: stop()
\* finds no thread to join, cleanup() frees what was opened.  Otherwise p->play().
IsValid ==
    /\ cpc = "is_valid"
    /\ IF is_valid
       THEN /\ cpc' = "play_check"
            /\ UNCHANGED <<format_ctx_, video_ctx_, texture_, entries_, use_embedded_sub_>>
       ELSE /\ cpc' = "idle"
            /\ format_ctx_' = "none"
            /\ video_ctx_' = "none"
            /\ texture_' = NoTexture
            /\ entries_' = <<>>
            /\ use_embedded_sub_' = FALSE
    /\ UNCHANGED <<pure, op, running_, paused_, ended_, seek_target_, cur_pts_, frame_ready_,
                   frame_mutex_, subtitle_mutex_, sub_text, DecodeOwned, carg, hist>>

OwnerStep == LoadMedia \/ DtorStop \/ DtorJoin \/ Cleanup \/ Construct \/ IsValid

\* main starts with no player and loads the first item
InitOwner ==
    /\ entries_ = <<>>
    /\ op = NoOp
    /\ use_embedded_sub_ = FALSE
    /\ running_ = FALSE
    /\ paused_ = FALSE
    /\ ended_ = FALSE
    /\ seek_target_ = -1
    /\ cur_pts_ = 0
    /\ frame_ready_ = FALSE
    /\ frame_mutex_ = "free"
    /\ subtitle_mutex_ = "free"
    /\ rgb_frame_ = -1
    /\ texture_ = NoTexture
    /\ sub_text = <<>>
    /\ threads = 0
    /\ dpc = "none"
    /\ seek_val = -1
    /\ elapsed = 0
    /\ rect = 0
    /\ dpos = 0
    /\ cpc = "idle"
    /\ carg = 0
    /\ hist = [NoHist EXCEPT !.on = FALSE]
    /\ format_ctx_ = "none"
    /\ video_ctx_ = "none"
    /\ NoPure

NextOwner == DecodeStep \/ ConsumerStep \/ Tick \/ OwnerStep

SpecOwner == InitOwner /\ [][NextOwner]_vars

\* C14 as claimed: a player whose container or primary video stream did not open
\* never has a decode thread: create_player() returns without calling play().
C14_NoThreadUnlessOpened ==
    format_ctx_ = "none" \/ video_ctx_ # "open" => dpc = "none" /\ threads = 0

\* C16: the replacement player is constructed only after the old player's decode
\* thread has been joined and its resources freed, and at no time do two decode
\* threads exist.
C16_ReplacedOnlyAfterJoin ==
    /\ cpc \in {"cleanup", "construct", "is_valid"} => dpc = "none" /\ threads = 0
    /\ cpc = "construct" =>
          format_ctx_ = "none" /\ video_ctx_ = "none" /\ texture_ = NoTexture /\ rgb_frame_ = -1
    /\ threads <= 1

\* the destructor of a player that has decoded its last frame has joined the
\* thread and is about to free the resources
C16_Witness ==
    /\ cpc = "cleanup"
    /\ rgb_frame_ = 2
    /\ format_ctx_ = "clip"
    /\ dpc = "none"

\* ==================================================== the player, by its sleeps
\* A valid player on the slow container.  Time passes only while the decode thread
\* sleeps, so every other step takes no time, and the sleeps are counted.
InitPaced ==
    /\ PlayerFields
    /\ format_ctx_ = "slow_clip"
    /\ video_ctx_ = "open"
    /\ NoPure
    /\ op = NoOp
    /\ \/ use_embedded_sub_ = FALSE /\ entries_ = ExternalTrack
       \/ use_embedded_sub_ = TRUE /\ entries_ = <<>>
    /\ hist = [NoHist EXCEPT !.on = FALSE, !.timed = TRUE]

NextPaced == DecodeStep \/ ConsumerStep

SpecPaced == InitPaced /\ [][NextPaced]_vars

\* C13 as claimed: once toggle_pause() has set paused_ on a running player with no
\* seek pending, the decode loop writes no frame and publishes no position after it
\* has slept more than one pause quantum of 10 ms.
C13_PauseWithinQuantum ==
    running_ /\ paused_ /\ seek_target_ < 0 /\ dpc = "publish" =>
        hist.slept <= PauseQuantumMs

\* the opening brackets less the closing brackets among the first i characters of s
Balance(s, i, open, close) ==
    Cardinality({j \in 1..i : s[j] = open}) - Cardinality({j \in 1..i : s[j] = close})

\* the nesting depth after the first i characters, when a closing bracket at depth
\* zero is ignored: the balance, less the lowest balance reached below zero so far
DepthAfter(s, i, open, close) ==
    Balance(s, i, open, close)
        - SetMin({0} \cup {Balance(s, j, open, close) : j \in 0..i})

\* the characters of s that are neither bracket and are read at depth zero, in order
KeptAtDepthZero(s, open, close) ==
    LET keep(k) == s[k] \notin {open, close} /\ DepthAfter(s, k - 1, open, close) = 0
        K == {k \in 1..Len(s) : keep(k)}
        nth(n) == CHOOSE k \in K : Cardinality({j \in K : j <= k}) = n
    IN  [n \in 1..Cardinality(K) |-> s[nth(n)]]

\* C21: strip_ass_tags and strip_html_tags return exactly the non-bracket
\* characters read at nesting depth zero, in order, where the depth never goes
\* below zero: a closing bracket with nothing open hides no later text, and an
\* opening bracket that is never closed drops the rest of the string.
C21_StripKeepsDepthZeroText ==
    /\ fn = "strip_ass_tags" => res = KeptAtDepthZero(arg, "{", "}")
    /\ fn = "strip_html_tags" => res = KeptAtDepthZero(arg, "<", ">")
    /\ strip_ass_tags(<<"}", "a">>) = <<"a">>
    /\ strip_html_tags(<<">", "a">>) = <<"a">>
    /\ strip_ass_tags(<<"a", "{", "b">>) = <<"a">>
    /\ strip_html_tags(<<"a", "<", "b">>) = <<"a">>

\* braces stripped from a text with a closing brace first, a character at depth
\* zero next, and then an opening brace that is never closed
C21_Witness ==
    /\ fn = "strip_ass_tags"
    /\ arg = <<"}", "a", "{", "a">>
    /\ res = <<"a">>

\* ======================================================= the timecode parsers
\* A timecode is put together from four fields.  The fields of the runs: digits
\* of one, two and three places at both ends of each range, and fields that are
\* empty, hold no digit, or hold a digit and then a letter.
DigitFields == {<<"0">>, <<"1">>, <<"0", "0">>, <<"0", "7">>, <<"5", "9">>,
                <<"0", "0", "5">>, <<"9", "9", "9">>}
BadFields == {<<>>, <<"x", "x">>, <<"1", "x">>}
Fields == DigitFields \cup BadFields

\* the four fields with the separators of the grammar between them
timecode(f, sep) == f[1] \o <<":">> \o f[2] \o <<":">> \o f[3] \o <<sep>> \o f[4]

\* the timecodes of the runs: the hours have at most two places
Timecodes == {f \in [1..4 -> Fields] : Len(f[1]) <= 2}

\* four fields are chosen and nothing has been applied to them
InitTime ==
    /\ entries_ = <<>>
    /\ op = NoOp
    /\ use_embedded_sub_ = FALSE
    /\ PlayerFields
    /\ hist = NoHist
    /\ format_ctx_ = "none"
    /\ video_ctx_ = "none"
    /\ fn = "none"
    /\ arg \in Timecodes
    /\ res = <<>>

\* parse_srt_time(ts) on the timecode with a comma
ParseSrtTime ==
    /\ fn = "none"
    /\ fn' = "parse_srt_time"
    /\ res' = <<parse_srt_time(timecode(arg, ","))>>
    /\ UNCHANGED <<entries_, op, player, arg>>

\* parse_ass_time(ts) on the timecode with a full stop
ParseAssTime ==
    /\ fn = "none"
    /\ fn' = "parse_ass_time"
    /\ res' = <<parse_ass_time(timecode(arg, "."))>>
    /\ UNCHANGED <<entries_, op, player, arg>>

NextTime == ParseSrtTime \/ ParseAssTime

SpecTime == InitTime /\ [][NextTime]_vars

\* the number that the first n characters of a field of digits write in decimal
RECURSIVE DecimalVal(_, _)
DecimalVal(t, n) == IF n = 0 THEN 0 ELSE DecimalVal(t, n - 1) * 10 + DigitVal(t[n])

\* the four fields have the widths of the grammar and hold digits only
WellFormed(f, widths) == \A i \in 1..4 : f[i] \in DigitFields /\ Len(f[i]) = widths[i]

\* hours, minutes and seconds in milliseconds
WholeMs(f) ==
    (DecimalVal(f[1], Len(f[1])) * 3600 + DecimalVal(f[2], Len(f[2])) * 60
        + DecimalVal(f[3], Len(f[3]))) * 1000

\* C22: for a well-formed timecode parse_srt_time("HH:MM:SS,mmm") is
\* H*3600 + M*60 + S + mmm/1000 seconds and parse_ass_time("H:MM:SS.cc") is
\* H*3600 + M*60 + S + cc/100 seconds.
C22_WellFormedTimecodeValue ==
    /\ fn = "parse_srt_time" /\ WellFormed(arg, <<2, 2, 2, 3>>) =>
          res = <<WholeMs(arg) + DecimalVal(arg[4], 3)>>
    /\ fn = "parse_ass_time" /\ WellFormed(arg, <<1, 2, 2, 2>>) =>
          res = <<WholeMs(arg) + DecimalVal(arg[4], 2) * 10>>
    /\ parse_srt_time(<<"0","1",":","2","3",":","4","5",",","6","7","8">>) = 5025678
    /\ parse_ass_time(<<"1",":","2","3",":","4","5",".","6","7">>) = 5025670

\* 1:07:59.07 has been parsed as an ASS timecode
C22_Witness ==
    /\ fn = "parse_ass_time"
    /\ arg = << <<"1">>, <<"0", "7">>, <<"5", "9">>, <<"0", "7">> >>
    /\ res = <<4079070>>

\* what one unit of each field is worth in milliseconds, the last field being
\* worth unit
Weights(unit) == <<3600000, 60000, 1000, unit>>

\* the number written by the digits a field begins with, zero when it begins
\* with none
LeadingVal(t) ==
    DecimalVal(t, SetMax({n \in 0..Len(t) : \A k \in 1..n : t[k] \in Digits}))

\* the sum of the values v[i] over the indices in I
RECURSIVE SumOver(_, _)
SumOver(I, v) ==
    IF I = {} THEN 0 ELSE LET k == SetMax(I) IN v[k] + SumOver(I \ {k}, v)

\* every field of digits counted at its weight, every other field as zero
WellFormedFieldsMs(f, unit) ==
    SumOver({k \in 1..4 : f[k] \in DigitFields},
            [k \in 1..4 |-> LeadingVal(f[k]) * Weights(unit)[k]])

\* the fields up to the first that is not of digits counted at their weight, that
\* one by the digits it begins with, every field after it as zero
FieldsUpToFirstBadMs(f, unit) ==
    LET bad == {k \in 1..4 : f[k] \in BadFields}
        last == IF bad = {} THEN 4 ELSE SetMin(bad)
    IN  SumOver(1..last, [k \in 1..4 |-> LeadingVal(f[k]) * Weights(unit)[k]])

WellFormedSrtBlocks == {"Hello", "Yo"}
SrtBlockEntry(b) ==
    CASE b = "Hello" -> SubtitleEntry(1000, 4000, <<"H", "e", "l", "l", "o">>)
      [] b = "Yo"    -> SubtitleEntry(2000, 3000, <<"Y", "o">>)

\* C24: load_srt on a file of n well-formed blocks whose cleaned text is not empty
\* leaves exactly n entries, in file order, each with the parsed start and end and
\* the cleaned text; the one-block file 1 / 00:00:01,000 --> 00:00:04,000 / Hello
\* leaves the one entry {1.0, 4.0, "Hello"}.
C24_WellFormedBlocksGiveTheirEntries ==
    /\ op.name = "load_srt" /\ op.opened
         /\ (\A k \in 1..Len(op.file) : op.file[k] \in WellFormedSrtBlocks) =>
          entries_ = [k \in 1..Len(op.file) |-> SrtBlockEntry(op.file[k])]
    /\ load_srt(<<SrtLineSeq1, SrtLineTime1to4, SrtLineHello, <<>>>>)
          = <<SubtitleEntry(1000, 4000, <<"H", "e", "l", "l", "o">>)>>

\* a file of two well-formed blocks, the later cue first, has been loaded
C24_Witness ==
    /\ op.name = "load_srt"
    /\ op.opened
    /\ op.file = <<"Yo", "Hello">>
    /\ Len(entries_) = 2
    /\ entries_[1].text = <<"Y", "o">>

\* the operation is a bulk load
IsLoad(o) == o.name \in {"load_srt", "load_ass"}

\* C25 as claimed: load_srt and load_ass return true exactly when the track is not
\* empty as the call returns.
C25_TrueIffTrackNonEmpty ==
    IsLoad(op) => (op.ret <=> entries_ # <<>>)

\* C25 amended: load_srt and load_ass return true exactly when at least one entry
\* was accepted from the file.  For a file that opens that is exactly when the
\* track is not empty as the call returns; for a file that does not open the call
\* returns false, whatever the track holds.
C25_TrueIffEntryAccepted ==
    IsLoad(op) =>
        /\ op.opened => (op.ret <=> entries_ # <<>>)
        /\ ~op.opened => ~op.ret

\* a load of a file that did not open has returned false on a track that holds
\* entries
C25_Witness ==
    /\ op.name = "load_ass"
    /\ ~op.opened
    /\ ~op.ret
    /\ Len(entries_) = 2

\* C26 as claimed: as load_srt or load_ass returns, whatever the outcome, the
\* track holds exactly the entries accepted from the file and none it held before.
C26_TrackIsTheFilesEntries ==
    /\ op.name = "load_srt" /\ op.opened => <<op.file, entries_>> \in SrtLoads
    /\ op.name = "load_ass" /\ op.opened => <<op.file, entries_>> \in AssLoads
    /\ IsLoad(op) /\ ~op.opened => entries_ = <<>>

\* C26 amended: when the file opens, the track holds as the call returns exactly
\* the entries accepted from that file and none it held before; when the file
\* does not open, the call leaves the track as it was.
C26_ReplacedWhenOpened ==
    /\ [](/\ op.name = "load_srt" /\ op.opened => <<op.file, entries_>> \in SrtLoads
          /\ op.name = "load_ass" /\ op.opened => <<op.file, entries_>> \in AssLoads)
    /\ [][IsLoad(op') /\ ~op'.opened => entries_' = entries_]_vars

\* a file with one cue has been loaded over a track that held entries out of order
C26_Witness ==
    /\ op.name = "load_ass"
    /\ op.opened
    /\ ~op.sorted_before
    /\ op.file = <<"HiThere">>
    /\ Len(entries_) = 1


\* ------------------------------------------- the columns of a Dialogue line
\* the positions of the commas of a string, and the position of its n-th comma
CommasOf(data) == {i \in 1..Len(data) : data[i] = ","}
NthComma(data, n) ==
    CHOOSE p \in CommasOf(data) : Cardinality({q \in CommasOf(data) : q <= p}) = n

\* the columns of a line cut at its first k commas: column j lies between comma
\* j - 1 and comma j, and the last column is everything behind comma k
Columns(data, k) ==
    [j \in 1..(k + 1) |->
        SubSeq(data,
               IF j = 1 THEN 1 ELSE NthComma(data, j - 1) + 1,
               IF j = k + 1 THEN Len(data) ELSE NthComma(data, j) - 1)]

\* what a Dialogue line in the events section adds when the text index is k: no
\* entry when it has fewer than k commas, when there is no column for the end
\* time, or when its text cleans to nothing
DialogueEntries(line, k) ==
    LET data == SubSeq(line, 10, Len(line))
        cols == Columns(data, k)
    IN  IF Cardinality(CommasOf(data)) < k \/ k < 2 THEN <<>>
        ELSE IF clean_text(cols[k + 1]) = <<>> THEN <<>>
        ELSE <<SubtitleEntry(parse_ass_time(trim_str(cols[2])),
                             parse_ass_time(trim_str(cols[3])),
                             clean_text(cols[k + 1]))>>

\* the zero-based position of the field named Text in a Format line
TextPosition(line) ==
    IF line = AssLineFormat THEN 9
    ELSE IF line = AssLineFormatShort THEN 3
    ELSE 9

\* the blocks of the model, read section by section: whether the block leaves the
\* reader inside the events section, the text index it leaves, and its entries
BlockInEvents(b, in_events) ==
    CASE b \in {"Later", "HiThere", "Short"} -> TRUE
      [] b = "Outside" -> FALSE
      [] b = "TagOnly" -> in_events

BlockTextIndex(b, k) ==
    CASE b = "Later" -> TextPosition(AssLineFormat)
      [] b = "Short" -> TextPosition(AssLineFormatShort)
      [] b \in {"HiThere", "TagOnly", "Outside"} -> k

BlockDialogue(b) ==
    CASE b = "Later"   -> AssLineLater
      [] b = "HiThere" -> AssLineHiThere
      [] b = "TagOnly" -> AssLineTagOnly
      [] b = "Outside" -> AssLineOutside
      [] b = "Short"   -> AssLineShort

\* the entries of a file in file order, from block i on, given the section the
\* reader is in and the text index in force
RECURSIVE FileEntries(_, _, _, _)
FileEntries(file, i, in_events, k) ==
    IF i > Len(file) THEN <<>>
    ELSE LET b == file[i]
         IN  (IF BlockInEvents(b, in_events)
              THEN DialogueEntries(BlockDialogue(b), BlockTextIndex(b, k))
              ELSE <<>>)
             \o FileEntries(file, i + 1, BlockInEvents(b, in_events), BlockTextIndex(b, k))

\* C27: load_ass cuts a Dialogue line of the events section at the first k commas,
\* k the position of Text in the last Format line of the events section (9 when
\* there was none), so that the line has k + 1 columns and the text column keeps
\* the commas behind it; the file of the claim gives {1.0, 3.5, "Hi, there"}
C27_DialogueSplitAtTextIndex ==
    /\ op.name = "load_ass" /\ op.opened =>
           entries_ \in sort_entries(FileEntries(op.file, 1, FALSE, 9))
    /\ load_ass(<<AssLineEvents, AssLineFormat, AssLineHiThere>>)
           = {<<SubtitleEntry(1000, 3500, <<"H", "i", ",", " ", "t", "h", "e", "r", "e">>)>>}
    /\ Len(ass_split(SubSeq(AssLineHiThere, 10, Len(AssLineHiThere)), 1, 0, 9)) = 10
    /\ Len(ass_split(SubSeq(AssLineHiThere, 10, Len(AssLineHiThere)), 1, 0, 3)) = 4

\* a file whose first cue is read with four columns and whose second, behind a new
\* events header without a Format line, is still read with four
C27_Witness ==
    /\ op.name = "load_ass"
    /\ op.opened
    /\ op.file = <<"Short", "HiThere">>
    /\ Len(entries_) = 2
    /\ entries_[1].text = <<"D", "e", "f", "a", "u", "l", "t", ",", ",", "0", ",", "0", ",", "0", ",", ",", "H", "i", ",", " ", "t", "h", "e", "r", "e">>
    /\ entries_[2].text = <<"a", ",", "b">>


\* ------------------------------------------------- the sections of a file
\* a section header, and the header of the events section
IsHeader(line) == line # <<>> /\ line[1] = "["
IsEventsHeader(line) ==
    /\ IsHeader(line)
    /\ \E p \in 1..(Len(line) - 7) : SubSeq(line, p, p + 7) = AssLineEvents

\* line i lies in the events section: the last header above it is the events header
InEvents(lines, i) ==
    \E j \in 1..(i - 1) :
        /\ IsEventsHeader(lines[j])
        /\ \A m \in (j + 1)..(i - 1) : ~IsHeader(lines[m])

\* a file without the lines that lie outside the events section: its headers and
\* the lines of its events sections, in file order
EventsLinesOnly(lines) ==
    LET kept == {i \in 1..Len(lines) : IsHeader(lines[i]) \/ InEvents(lines, i)}
    IN  [n \in 1..Cardinality(kept) |->
            lines[CHOOSE i \in kept : Cardinality({m \in kept : m <= i}) = n]]

\* the Format and Dialogue lines of a file that lie outside the events section
OutsideLines(lines) ==
    {i \in 1..Len(lines) :
        /\ ~IsHeader(lines[i])
        /\ ~InEvents(lines, i)
        /\ \/ starts_with(lines[i], <<"F", "o", "r", "m", "a", "t", ":">>)
           \/ starts_with(lines[i], <<"D", "i", "a", "l", "o", "g", "u", "e", ":">>)}

\* C28: load_ass reads Format and Dialogue lines in the events section only: the
\* track is the one the file gives without its lines outside that section, so
\* those lines add no entry and leave the text index as it was, and a header
\* other than [Events] ends the events section
C28_OutsideEventsIgnored ==
    op.name = "load_ass" /\ op.opened =>
        LET lines == AssFileLines(op.file)
        IN  /\ entries_ \in load_ass(EventsLinesOnly(lines))
            /\ \A i \in 1..Len(entries_) :
                   entries_[i].text # <<"O", "u", "t", "s", "i", "d", "e">>
            /\ OutsideLines(lines) = 1..Len(lines) => entries_ = <<>>

\* a file with a four-column Format line and a cue in a styles section, then an
\* events section without a Format line: its cue is read with ten columns
C28_Witness ==
    /\ op.name = "load_ass"
    /\ op.opened
    /\ op.file = <<"Outside", "HiThere">>
    /\ OutsideLines(AssFileLines(op.file)) = {2, 3}
    /\ Len(entries_) = 1
    /\ entries_[1].text = <<"H", "i", ",", " ", "t", "h", "e", "r", "e">>


\* C29 as stated: whenever load_ass has returned, the track is in start order
C29_SortedAfterLoadAss ==
    op.name = "load_ass" => IsSortedByStart(entries_)

\* C29: when load_ass has read a file, the track is in non-decreasing start order,
\* whatever the order of the Dialogue lines of the file; when the file did not
\* open, the track is in start order if it was before the call
C29_SortedAfterLoadAssRead ==
    op.name = "load_ass" =>
        /\ op.opened => IsSortedByStart(entries_)
        /\ ~op.opened /\ op.sorted_before => IsSortedByStart(entries_)

\* a file whose later cue comes first has been read over a track that was out of
\* order, and the earlier cue is first in the track
C29_Witness ==
    /\ op.name = "load_ass"
    /\ op.opened
    /\ ~op.sorted_before
    /\ op.file = <<"Later", "HiThere">>
    /\ Len(entries_) = 2
    /\ entries_[1].start = 1000
    /\ entries_[2].start = 5000


\* ------------------------------------------------------- file discovery
\* a track with load_file as its only loader
NextFile == LoadFile \/ AddFfmpegEntry \/ Clear

SpecFile == Init /\ [][NextFile]_vars

\* candidate i is a file that parses to at least one entry
Parses(cands, i) == cands[i].state = "file" /\ cands[i].entries # <<>>

\* the first extension in probe order whose file parses to an entry, 0 for none
FirstParsed(cands) ==
    IF \E i \in 1..Len(cands) : Parses(cands, i)
    THEN CHOOSE i \in 1..Len(cands) :
             Parses(cands, i) /\ \A j \in 1..(i - 1) : ~Parses(cands, j)
    ELSE 0

\* C30 as stated: load_file returns true with exactly the entries of the first
\* candidate in probe order that parses to an entry, and false with an empty
\* track when no candidate does
C30_FirstParsedElseEmpty ==
    op.name = "load_file" =>
        LET w == FirstParsed(op.file)
        IN  IF w # 0 THEN op.ret /\ entries_ = op.file[w].entries
            ELSE ~op.ret /\ entries_ = <<>>

\* C30: load_file returns true with exactly the entries of the first candidate in
\* probe order that parses to an entry, whatever the later candidates hold; when no
\* candidate does it returns false, with an empty track if a candidate was opened
\* and with the track as it was if none was
C30_FirstParsedElseEmptyOrKept ==
    /\ [](op.name = "load_file" =>
            LET w == FirstParsed(op.file)
            IN  IF w # 0 THEN op.ret /\ entries_ = op.file[w].entries
                ELSE ~op.ret /\ (op.opened => entries_ = <<>>))
    /\ [][op'.name = "load_file" /\ ~op'.opened => entries_' = entries_]_vars

\* the .srt file holds markup only, the .ass file parses to one entry and the .ssa
\* file to two: the track is the .ass file's, over a track that held entries
C30_Witness ==
    /\ op.name = "load_file"
    /\ op.file[1].state = "file" /\ op.file[1].blocks = <<"TagOnly">>
    /\ op.file[2].state = "file" /\ op.file[2].blocks = <<"HiThere">>
    /\ op.file[3].state = "file" /\ op.file[3].blocks = <<"Later", "HiThere">>
    /\ ~op.sorted_before
    /\ op.ret
    /\ Len(entries_) = 1
    /\ entries_[1].text = <<"H", "i", ",", " ", "t", "h", "e", "r", "e">>


\* ------------------------------------- the player with any external file
\* an external file whose cues are out of start order: load_srt keeps its order
SrtLineTime2to3Ms == <<"0","0",":","0","0",":","0","0",",","0","0","2"," ","-","-",">"," ",
                       "0","0",":","0","0",":","0","0",",","0","0","3">>
UnorderedSrtLines ==
    <<SrtLineSeq1, SrtLineTime2to3Ms, SrtLineYo, <<>>, SrtLineSeq2Cr, SrtLineTime1to3Ms, SrtLineHello>>
UnorderedExternalTrack == load_srt(UnorderedSrtLines)

\* the tracks load_file leaves at construction
ExternalTracks == {ExternalTrack, UnorderedExternalTrack}

\* a valid VideoPlayer after its constructor, with either external file or none;
\* the iterations of its decode loop are traced
InitAnyTrack ==
    /\ PlayerFields
    /\ format_ctx_ = "clip"
    /\ video_ctx_ = "open"
    /\ NoPure
    /\ op = NoOp
    /\ hist = [NoHist EXCEPT !.traced = TRUE]
    /\ \/ use_embedded_sub_ = FALSE /\ entries_ \in ExternalTracks
       \/ use_embedded_sub_ = TRUE /\ entries_ = <<>>

SpecAnyTrack == InitAnyTrack /\ [][NextPlayer]_vars

\* each thread is inside a track operation only with the lock in its hands
TrackOpsLocked ==
    /\ dpc \in {"seek_clear", "sub_add"} => subtitle_mutex_ = "decode"
    /\ cpc = "sub_read" => subtitle_mutex_ = "consumer"

\* C31 as stated: every insert, clear and lookup runs with subtitle_mutex_ held, so
\* a lookup never overlaps an insert or a clear, and the track a lookup reads is
\* in start order
C31_LockedAndSorted ==
    /\ TrackOpsLocked
    /\ cpc = "sub_read" => IsSortedByStart(entries_)

\* C31: every insert, clear and lookup runs with subtitle_mutex_ held, so a lookup
\* never overlaps an insert or a clear; the track a lookup reads is in start order
\* when the source is embedded, and is the track load_file left, in the order of
\* the file, when the source is an external file
C31_LockedAndSortedIfEmbedded ==
    /\ TrackOpsLocked
    /\ cpc = "sub_read" =>
           IF use_embedded_sub_ THEN IsSortedByStart(entries_)
           ELSE entries_ \in ExternalTracks

\* a lookup holds the lock on a track with an entry while the decode thread waits
\* for it with the clear of a seek
C31_Witness ==
    /\ cpc = "sub_read"
    /\ dpc = "seek_lock"
    /\ subtitle_mutex_ = "consumer"
    /\ use_embedded_sub_
    /\ Len(entries_) >= 1


\* ------------------------------------------- the iterations of the decode loop
\* where the demuxer stands after a seek to t: before the last key frame at or
\* before t
KeyFrameBefore(t) ==
    SetMax({i \in 1..Len(Stream) : Stream[i].kind = "video" /\ Stream[i].pts <= t}) - 1

PausedBranchIdle ==
    dpc = "pause" /\ paused_ /\ dpc' # dpc =>
        /\ dpc' = "top"
        /\ elapsed' = elapsed
        /\ UNCHANGED <<dpos, rgb_frame_, frame_ready_, cur_pts_>>

\* C33 as stated: an iteration that observes the paused flag set reads no packet,
\* writes no frame and does not change the position, and its sleep and its advance
\* of the pacing reference cancel
C33_PausedIterationIdle ==
    /\ []("paused" \in hist.did => hist.did \cap {"read", "frame", "moved"} = {})
    /\ [][PausedBranchIdle]_vars

\* C33: an iteration that observes the paused flag set reads no packet and writes
\* no frame; it changes the position only when it has serviced a seek before its
\* pause check, to the target of that seek; its sleep and its advance of the
\* pacing reference cancel
C33_PausedIterationIdleButForSeek ==
    /\ [](/\ "paused" \in hist.did => hist.did \cap {"read", "frame"} = {}
          /\ "paused" \in hist.did /\ "moved" \in hist.did => "seek" \in hist.did)
    /\ [][PausedBranchIdle]_vars

\* an iteration that serviced a seek from 0 to 2 and then found the player paused
C33_Witness ==
    /\ dpc = "top"
    /\ hist.did = {"seek", "moved", "paused"}
    /\ paused_
    /\ cur_pts_ = 2


\* the decode thread is past the pacing wait of a frame and has not yet published
\* the frame's timestamp
PastPacingWait == dpc \in {"frame_lock", "frame_write", "publish"}

\* C34: the frame is written and its timestamp published only once the clock has
\* reached pacing reference + pts, unless the wait was left before that; the wait
\* is left early only on a stop request or a pending seek, which is then still
\* standing
C34_FrameNotBeforeItsTime ==
    /\ PastPacingWait => elapsed >= pkt.pts \/ "cut" \in hist.did
    /\ PastPacingWait /\ "cut" \in hist.did => ~running_ \/ seek_target_ >= 0

\* the frame due at 2 is being written at 2, with no stop and no seek
C34_Witness ==
    /\ dpc = "frame_write"
    /\ pkt.pts = 2
    /\ elapsed = 2
    /\ cur_pts_ = 0
    /\ "cut" \notin hist.did
    /\ running_
    /\ seek_target_ < 0


\* each thread is at the frame buffer only with frame_mutex_ in its hands, and the
\* decode thread can take the free lock whether or not the last frame was taken
FrameBufferLocked ==
    /\ dpc = "frame_write" => frame_mutex_ = "decode"
    /\ cpc = "update_copy" => frame_mutex_ = "consumer"
    /\ dpc = "frame_lock" /\ frame_mutex_ = "free" => ENABLED FrameLock

\* the write puts the frame in the one buffer and sets the ready flag, over any
\* frame that was there; the copy takes the frame of the buffer and clears the flag
FrameBufferSteps ==
    /\ dpc = "frame_write" /\ dpc' # dpc => rgb_frame_' = pkt.pts /\ frame_ready_'
    /\ cpc = "update_copy" /\ cpc' # cpc /\ frame_ready_ =>
           texture_' = rgb_frame_ /\ ~frame_ready_'

\* C35: the frame buffer holds one frame and is guarded by frame_mutex_: the write
\* of the decode thread and the copy of update() never overlap, the decode thread
\* never waits for the ready flag to be cleared and writes over a frame that was
\* not taken, and update() clears the ready flag when it has copied
C35_OneFrameBufferUnderLock == []FrameBufferLocked /\ [][FrameBufferSteps]_vars

\* the frame of 0 is ready and was never copied, and the decode thread holds the
\* lock to write the frame of 2 over it
C35_Witness ==
    /\ dpc = "frame_write"
    /\ frame_mutex_ = "decode"
    /\ frame_ready_
    /\ rgb_frame_ = 0
    /\ texture_ = -1
    /\ pkt.pts = 2
    /\ cpc = "update_lock"


\* C36 as stated, for the seek: a seek() made on a running player whose ended flag
\* is set is serviced by the loop, so until the loop has read its target, that
\* target is the pending one or the one the loop is servicing
C36_EndedSeekServiced ==
    hist.risen = "pending" =>
        \/ seek_target_ = hist.request
        \/ dpc \in {"seek_reset", "seek_lock", "seek_clear", "seek_clock"}
              /\ seek_val = hist.request

\* ============================================================ load_srt alone
\* The lines a file handed to load_srt is made of: a sequence number, a
\* timecode line, two text lines and the empty line.
SrtLineKinds == {SrtLineSeq1, SrtLineTime2to3, SrtLineYo, SrtLineHello, <<>>}

MaxLines == 4

\* the files of at most MaxLines lines
SrtLineFiles == UNION {[1..n -> SrtLineKinds] : n \in 0..MaxLines}

\* a file is chosen and nothing has read it
InitLines ==
    /\ entries_ = <<>>
    /\ op = NoOp
    /\ use_embedded_sub_ = FALSE
    /\ PlayerFields
    /\ hist = NoHist
    /\ format_ctx_ = "none"
    /\ video_ctx_ = "none"
    /\ fn = "none"
    /\ arg \in SrtLineFiles
    /\ res = <<>>

\* load_srt(path) on a file that opens and holds the lines arg
LoadSrtLines ==
    /\ fn = "none"
    /\ fn' = "load_srt"
    /\ entries_' = load_srt(arg)
    /\ res' = <<entries_' # <<>>>>
    /\ op' = Op("load_srt", TRUE, entries_' # <<>>, <<>>)
    /\ UNCHANGED <<player, arg>>

NextLines == LoadSrtLines

SpecLines == InitLines /\ [][NextLines]_vars

\* the line is made only of digits
IsDigitsOnly(line) == line # <<>> /\ \A i \in 1..Len(line) : line[i] \in Digits

\* the line holds an arrow
IsTimeLine(line) == find(line, <<"-", "-", ">">>, 1) # 0

\* the first line after line i that is empty or made only of digits, or the
\* end of the file
BlockEnd(lines, i) ==
    LET Stops == {j \in (i + 1)..Len(lines) : lines[j] = <<>> \/ IsDigitsOnly(lines[j])}
    IN  IF Stops = {} THEN Len(lines) + 1
        ELSE CHOOSE j \in Stops : \A k \in Stops : j <= k

RECURSIVE JoinLines(_)
JoinLines(texts) ==
    IF texts = <<>> THEN <<>>
    ELSE IF Len(texts) = 1 THEN texts[1]
    ELSE texts[1] \o <<"\n">> \o JoinLines(Tail(texts))

\* what the block opened by the digit-only line i stores: the text lines up to
\* the block's end joined by line breaks, under the times of the block's last
\* timecode line
BlockEntries(lines, i) ==
    LET body  == SubSeq(lines, i + 1, BlockEnd(lines, i) - 1)
        texts == SelectSeq(body, LAMBDA l : ~IsTimeLine(l))
        times == SelectSeq(body, IsTimeLine)
        last  == times[Len(times)]
        cur   == IF times = <<>> THEN [start |-> 0, end |-> 0]
                 ELSE srt_time_line(srt_start, last, find(last, <<"-", "-", ">">>, 1)).cur
        text  == clean_text(JoinLines(texts))
    IN  IF text = <<>> THEN <<>>
        ELSE <<[start |-> cur.start, end |-> cur.end, text |-> text]>>

\* one block for each digit-only line, in file order
RECURSIVE BlocksFrom(_, _)
BlocksFrom(lines, i) ==
    IF i > Len(lines) THEN <<>>
    ELSE (IF IsDigitsOnly(lines[i]) THEN BlockEntries(lines, i) ELSE <<>>)
            \o BlocksFrom(lines, i + 1)

\* C37: in load_srt every line made only of digits starts a new entry and
\* flushes the entry in progress, also among the text lines of a block, and
\* text lines read before any digit-only line go into no entry: the entries
\* stored are, for each digit-only line in file order, the text lines that
\* follow it up to the next digit-only or empty line.
C37_DigitLineStartsEntry ==
    fn = "load_srt" =>
        /\ entries_ = BlocksFrom(arg, 1)
        /\ (\A i \in 1..Len(arg) : ~IsDigitsOnly(arg[i])) => entries_ = <<>>

\* Hello / 1 / Yo / 1 has been read: Hello came before any digit-only line and
\* the second 1 closed the entry holding Yo
C37_Witness ==
    /\ fn = "load_srt"
    /\ arg = <<SrtLineHello, SrtLineSeq1, SrtLineYo, SrtLineSeq1>>
    /\ Len(entries_) = 1
    /\ entries_[1].text = SrtLineYo

\* ===================================== a packet with several text rectangles
\* a player constructed on the container whose subtitle packet has several
\* rectangles with text, with the embedded stream as its subtitle source
InitRects ==
    /\ PlayerFields
    /\ format_ctx_ = "rects_clip"
    /\ video_ctx_ = "open"
    /\ NoPure
    /\ op = NoOp
    /\ use_embedded_sub_ = TRUE
    /\ entries_ = <<>>
    /\ hist = [NoHist EXCEPT !.on = FALSE]

SpecRects == InitRects /\ [][NextPlayer]_vars

\* the cleaned texts of the rectangles of the container's subtitle packets
RectTexts(first_only) ==
    UNION {{clean_text(Stream[i].rects[r]) :
               r \in {q \in 1..Len(Stream[i].rects) :
                         /\ Stream[i].rects[q] # <<>>
                         /\ first_only => q = next_rect(Stream[i].rects, 0)}} :
           i \in {k \in 1..Len(Stream) : Stream[k].kind = "subtitle"}}

\* the cleaned text of the first rectangle of each subtitle packet that is
\* stored, which is the first whose cleaned text is not empty
StoredFirstTexts ==
    {LET rects == Stream[i].rects
         R == {q \in 1..Len(rects) : rects[q] # <<>> /\ clean_text(rects[q]) # <<>>}
     IN  IF R = {} THEN <<>> ELSE clean_text(rects[SetMin(R)]) :
     i \in {k \in 1..Len(Stream) : Stream[k].kind = "subtitle"}}

\* every entry with the start of an entry after it in the track was inserted
\* later than that entry: the texts come in the reverse of the rectangles' order
LaterInsertsFirst ==
    \A i \in 1..Len(entries_), j \in 1..Len(entries_) :
        i < j /\ entries_[i].start = entries_[j].start =>
            \E p, q \in 1..Len(RectsTagTextText) :
                /\ q < p
                /\ entries_[i].text = clean_text(RectsTagTextText[p])
                /\ entries_[j].text = clean_text(RectsTagTextText[q])

\* C38 as claimed: for an embedded subtitle packet with several text
\* rectangles, no lookup returns a text other than the first rectangle's.
C38_FirstRectangleOnly ==
    /\ sub_text \in {<<>>} \cup RectTexts(TRUE)
    /\ \A t \in 0..(ClockCap + 2) : get_active(entries_, t) \in {<<>>} \cup RectTexts(TRUE)

\* C38: among stored entries with the same start, get_active considers only
\* the one add_ffmpeg_entry inserted first, each later insert being placed
\* before the earlier ones; for an embedded subtitle packet with several text
\* rectangles every lookup returns nothing or the text of the first rectangle
\* that was stored, the first whose cleaned text is not empty.
C38_FirstStoredRectangleOnly ==
    /\ LaterInsertsFirst
    /\ sub_text \in {<<>>} \cup StoredFirstTexts
    /\ \A t \in 0..(ClockCap + 2) : get_active(entries_, t) \in {<<>>} \cup StoredFirstTexts

\* both stored rectangles are in the track, the later one first, and a lookup
\* has returned the text of the earlier one
C38_Witness ==
    /\ Len(entries_) = 2
    /\ entries_[1].start = entries_[2].start
    /\ entries_[1].text = <<"b">>
    /\ entries_[2].text = <<"a">>
    /\ cpc = "sub_return"
    /\ sub_text = <<"a">>

\* the frame is written with its ready flag set, and its timestamp published
FrameStillPublished ==
    /\ dpc = "frame_write" /\ dpc' # dpc =>
            dpc' = "publish" /\ rgb_frame_' = pkt.pts /\ frame_ready_'
    /\ dpc = "publish" /\ dpc' # dpc => dpc' = "top" /\ cur_pts_' = pkt.pts

\* C39: when the pacing wait of a frame is cut short by a pending seek or a stop
\* request, the loop still writes that frame, sets the ready flag and publishes
\* the frame's timestamp as the position, and only then comes back to the top
\* of the loop, where the seek is serviced or the loop is left.
C39_CutFrameStillPublished ==
    /\ [](/\ "cut" \in hist.did =>
                \/ dpc \in {"frame_lock", "frame_write"}
                \/ dpc = "publish" /\ "frame" \in hist.did /\ rgb_frame_ = pkt.pts
                \/ /\ dpc = "top"
                   /\ "frame" \in hist.did
                   /\ rgb_frame_ = pkt.pts
                   /\ cur_pts_ = pkt.pts
          /\ "cut" \in hist.did /\ dpc = "top" => ~running_ \/ seek_target_ >= 0)
    /\ [][FrameStillPublished]_vars

\* the wait for the frame due at 2 was cut short by a seek that is still pending:
\* the frame is in the buffer and 2 is the position before its time has come
C39_Witness ==
    /\ dpc = "top"
    /\ "cut" \in hist.did
    /\ running_
    /\ seek_target_ >= 0
    /\ elapsed < 2
    /\ rgb_frame_ = 2
    /\ cur_pts_ = 2

=============================================================================
